---- MODULE Spec2Model ----
(***************************************************************************)
(* A model of the Intel ICH / AC97 low level sound card driver             *)
(* (mpxplay/au_cards/sc_ich.c): card detection and release, the DMA ring   *)
(* set-up, the playback position query and the AC97 clock measurement.     *)
(*                                                                         *)
(* Register values that are bit fields are sets of single-bit masks        *)
(* (Bits(5) = {1, 4}); unsigned 32-bit quantities are kept as the signed   *)
(* representative of their residue modulo 2^32, compared with U32Less.     *)
(***************************************************************************)
EXTENDS Integers, Sequences, FiniteSets, TLC

VARIABLES
    env,      \* the build and the machine: never changes after Init
    aui,      \* struct mpxplay_audioout_info_s: the host's handle
    card,     \* struct intel_card_s: the object aui.card_private_data points to
    heap,     \* the allocator's book: one entry per INTELICH_adetect call
    hw,       \* the bus-master registers, the codec registers and the DMA memory
    gb,       \* INTELICH_getbufpos in progress: its loop counter and what it did
    ub,       \* "none", or the undefined behaviour the program has run into
    last,     \* the host call that ended last and what it returned; none
              \* while INTELICH_getbufpos is in progress
    att,      \* the last attempt INTELICH_getbufpos made
    ndetect,  \* number of INTELICH_adetect calls made so far
    wt,       \* the bounded wait in progress: its loop counter and its polls
    hs,       \* a host call in progress between two register accesses
    isr,      \* what the last INTELICH_IRQRoutine invocation read and wrote
    g_counts  \* g_counts[SIS7012_DEBUG_*]: the interrupt handler's counters

vars == <<env, aui, card, heap, hw, gb, ub, last, att, ndetect, wt, hs, isr, g_counts>>

----------------------------------------------------------------------------
(* Bounds of the model *)

\* at most this many INTELICH_adetect calls in one behaviour
MaxDetects == 2

\* at most this many INTELICH_IRQRoutine invocations in one behaviour
MaxIrqs == 2

\* the microseconds pds_gettimeu advances by between two looks at it
ClockStep == 250000

----------------------------------------------------------------------------
(* Program constants *)

ICH_PO_CR_START == 1
ICH_PO_CR_RESET == 2
ICH_PO_CR_LVBIE == 4
ICH_PO_CR_FEIE == 8
ICH_PO_CR_IOCE == 16

ICH_PO_SR_DCH == 1
ICH_PO_SR_LVBCI == 4
ICH_PO_SR_BCIS == 8
ICH_PO_SR_FIFO == 16

\* 0x00000008, 0x00000004, 0x00000002
ICH_GLOB_CNT_ACLINKOFF == 8
ICH_GLOB_CNT_AC97WARM == 4
ICH_GLOB_CNT_AC97COLD == 2
\* 0x00400000, 0x00300000, 0x000000c0
ICH_PCM_20BIT == 4194304
ICH_PCM_246_MASK == 3145728
ICH_SIS_PCM_246_MASK == 192

\* 0x00000100, 0x00008000, 0x00c00000, 0x00400000
ICH_GLOB_STAT_PCR == 256
ICH_GLOB_STAT_RCS == 32768
ICH_SAMPLE_CAP == 12582912
ICH_SAMPLE_16_20 == 4194304

\* 0x8000: buffer descriptor high word, interrupt on completion
ICH_BD_IOC == 32768

ICH_DMABUF_MAX_PERIODS == 32
ICH_DMABUF_PERIODS == 4
\* 2 * sizeof(uint32_t)
ICH_BDL_ENTRY_SIZE == 8
ICH_DMABUF_ALIGN == ICH_DMABUF_MAX_PERIODS * ICH_BDL_ENTRY_SIZE

ICH_DEFAULT_RETRY == 1000

DEVICE_INTEL == 0
DEVICE_INTEL_ICH4 == 1
DEVICE_NFORCE == 2
DEVICE_SIS == 3

\* the null pointer
NULL == 0

----------------------------------------------------------------------------
(* Bit fields and unsigned arithmetic *)

RECURSIVE Pow2(_)
Pow2(k) == IF k = 0 THEN 1 ELSE 2 * Pow2(k - 1)

\* the set of single-bit masks set in the non-negative number n
Bits(n) == { Pow2(k) : k \in { j \in 0..30 : (n \div Pow2(j)) % 2 = 1 } }

\* a < b for two unsigned 32-bit values given by their signed representatives
U32Less(a, b) ==
    \/ a >= 0 /\ b >= 0 /\ a < b
    \/ a >= 0 /\ b < 0
    \/ a < 0 /\ b < 0 /\ a < b

\* (v & 0xfff0) for a non-negative v
MaskFFF0(v) == (v % 65536) - (v % 16)

----------------------------------------------------------------------------
(* The device table *)

ich_devices == <<
    [name |-> "82801AA", vendor_id |-> 32902, device_id |-> 9237,  device_type |-> DEVICE_INTEL],
    [name |-> "82901AB", vendor_id |-> 32902, device_id |-> 9253,  device_type |-> DEVICE_INTEL],
    [name |-> "82801BA", vendor_id |-> 32902, device_id |-> 9285,  device_type |-> DEVICE_INTEL],
    [name |-> "ICH3",    vendor_id |-> 32902, device_id |-> 9349,  device_type |-> DEVICE_INTEL],
    [name |-> "ICH4",    vendor_id |-> 32902, device_id |-> 9413,  device_type |-> DEVICE_INTEL_ICH4],
    [name |-> "ICH5",    vendor_id |-> 32902, device_id |-> 9429,  device_type |-> DEVICE_INTEL_ICH4],
    [name |-> "ESB",     vendor_id |-> 32902, device_id |-> 9638,  device_type |-> DEVICE_INTEL_ICH4],
    [name |-> "ICH6",    vendor_id |-> 32902, device_id |-> 9838,  device_type |-> DEVICE_INTEL_ICH4],
    [name |-> "ICH7",    vendor_id |-> 32902, device_id |-> 10206, device_type |-> DEVICE_INTEL_ICH4],
    [name |-> "ESB2",    vendor_id |-> 32902, device_id |-> 9880,  device_type |-> DEVICE_INTEL_ICH4],
    [name |-> "440MX",   vendor_id |-> 32902, device_id |-> 29077, device_type |-> DEVICE_INTEL],
    [name |-> "SI7012",  vendor_id |-> 4153,  device_id |-> 28690, device_type |-> DEVICE_SIS],
    [name |-> "NFORCE",  vendor_id |-> 4318,  device_id |-> 433,   device_type |-> DEVICE_NFORCE],
    [name |-> "MCP04",   vendor_id |-> 4318,  device_id |-> 58,    device_type |-> DEVICE_NFORCE],
    [name |-> "NFORCE2", vendor_id |-> 4318,  device_id |-> 106,   device_type |-> DEVICE_NFORCE],
    [name |-> "CK804",   vendor_id |-> 4318,  device_id |-> 89,    device_type |-> DEVICE_NFORCE],
    [name |-> "CK8",     vendor_id |-> 4318,  device_id |-> 138,   device_type |-> DEVICE_NFORCE],
    [name |-> "NFORCE3", vendor_id |-> 4318,  device_id |-> 218,   device_type |-> DEVICE_NFORCE],
    [name |-> "CK8S",    vendor_id |-> 4318,  device_id |-> 234,   device_type |-> DEVICE_NFORCE],
    [name |-> "AMD8111", vendor_id |-> 4130,  device_id |-> 29805, device_type |-> DEVICE_INTEL],
    [name |-> "AMD768",  vendor_id |-> 4130,  device_id |-> 29765, device_type |-> DEVICE_INTEL] >>

\* The PCI config service: the table entries that match the device on the
\* bus (vendor v, device d); empty when the device is not supported.
pcibios_search_devices(v, d) ==
    { i \in 1..Len(ich_devices) :
        ich_devices[i].vendor_id = v /\ ich_devices[i].device_id = d }

\* the PCI audio function the machine may carry: <<vendor, device>>
\* (one of each family, and one the table does not list)
BusDevices ==
    { <<32902, 9237>>, <<32902, 9413>>, <<4318, 433>>, <<4153, 28690>>,
      <<32902, 9236>> }

\* every <<vendor, device>> pair the table lists
TableDevices ==
    { <<ich_devices[i].vendor_id, ich_devices[i].device_id>> :
        i \in 1..Len(ich_devices) }

\* pairs the table does not list: a device id next to a listed one, and
\* listed ids under another listed vendor
UnknownDevices == { <<32902, 9236>>, <<4153, 9237>>, <<32902, 28690>>, <<4318, 28690>> }

\* the port offset of the PCM out status register
ICH_PO_SR_REG_std(c) == 22

ICH_PO_SR_REG(c) == IF c.device_type = DEVICE_SIS THEN 24 ELSE 22

\* the port offset of the PCM out position register
ICH_PO_PICB_REG(c) == IF c.device_type = DEVICE_SIS THEN 22 ELSE 24

\* the port offsets that do not depend on the family
ICH_PO_CR_REG == 27
ICH_PO_LVI_REG == 21
ICH_PO_CIV_REG == 20

----------------------------------------------------------------------------
(* The machine and the collaborators outside the driver *)

\* MDma_get_max_pcmoutbufsize: the PCM buffer size the host is configured
\* for, a multiple of ICH_DMABUF_ALIGN
BufSizes == { 16384, 32768 }

\* AUCARDS_DMABUFSIZE_NORMAL: the cap of the clock test's buffer
AUCARDS_DMABUFSIZE_NORMAL == 32768

\* the raw value PCI config space gives for a base address register
\* (0: the BIOS did not set it; else an I/O address with bit 0 set)
BarSet == 55297
BarRaws == { 0, BarSet }

\* the interrupt line register as the BIOS left it (255: none)
IrqSet == 5
IrqRaws == { IrqSet, 255 }

\* MDma_alloc_cardmem: where allocation number id lies, as the program sees
\* it and as the bus master sees it
dm_linearptr(id) == 4194304 + 65536 * id
dm_physicalptr(id) == 1048576 + 65536 * id

\* pds_cardmem_physicalptr(dm, ptr) for the allocation number id
pds_cardmem_physicalptr(id, ptr) == dm_physicalptr(id) + (ptr - dm_linearptr(id))

\* one buffer descriptor: address word, and the two halves of the second word
BdlSlot(a, lo, hi) == [addr |-> a, len |-> lo, ctl |-> hi]

\* descriptor memory nobody has written yet
JunkBdl == [i \in 0..(ICH_DMABUF_MAX_PERIODS - 1) |-> BdlSlot(-1, -1, -1)]

\* power-on values of the global control register
GlobCntInits ==
    { {},
      Bits(ICH_GLOB_CNT_AC97COLD) \cup Bits(ICH_GLOB_CNT_ACLINKOFF)
        \cup Bits(ICH_PCM_246_MASK) \cup Bits(ICH_SIS_PCM_246_MASK)
        \cup Bits(ICH_PCM_20BIT) }

----------------------------------------------------------------------------
(* Exact rationals <<n, d>>, d > 0, for the clock corrector *)

RECURSIVE GCD(_, _)
GCD(a, b) == IF b = 0 THEN a ELSE GCD(b, a % b)

Rat(n, d) == IF n = 0 THEN <<0, 1>> ELSE <<n \div GCD(n, d), d \div GCD(n, d)>>

\* a/b < c/d for a, c >= 0 and b, d > 0, by continued fractions (no product
\* is formed, so nothing overflows)
RECURSIVE FracLess(_, _, _, _)
FracLess(a, b, c, d) ==
    LET q1 == a \div b
        q2 == c \div d
        r1 == a % b
        r2 == c % d
    IN  IF q1 # q2 THEN q1 < q2
        ELSE IF r2 = 0 THEN FALSE
        ELSE IF r1 = 0 THEN TRUE
        ELSE FracLess(d, r2, b, r1)

RatLess(x, y) == FracLess(x[1], x[2], y[1], y[2])

\* floor(a * b / c) and the remainder, for a, b >= 0 and 0 < c < 2^30,
\* by doubling (the product a * b itself may not fit)
RECURSIVE MulDivRem(_, _, _)
MulDivRem(a, b, c) ==
    IF b = 0 THEN <<0, 0>>
    ELSE LET h  == MulDivRem(a, b \div 2, c)
             q2 == (2 * h[1]) + ((2 * h[2]) \div c)
             r2 == (2 * h[2]) % c
         IN  IF b % 2 = 0 THEN <<q2, r2>>
             ELSE <<q2 + (a \div c) + ((r2 + (a % c)) \div c), (r2 + (a % c)) % c>>

\* the number of fraction bits a float keeps for a value with integer part q
\* (0 <= q < 2^24), given that the value is at least 2^-7: 23 - floor(log2)
RECURSIVE FracBits(_, _, _)
FracBits(q, n, d) ==
    IF q >= 1
    THEN 23 - (CHOOSE k \in 0..23 : Pow2(k) <= q /\ q < Pow2(k + 1))
    ELSE 24 + (CHOOSE k \in 0..6 : /\ ~FracLess(n, d, 1, Pow2(k + 1))
                                   /\ FracLess(n, d, 1, Pow2(k)))

\* round to nearest, ties to even: the quotient q of a division by d that
\* left remainder r
RoundEven(q, r, d) ==
    IF r > d - r \/ (r = d - r /\ q % 2 = 1) THEN q + 1 ELSE q

\* the float nearest to q + n/d (0 <= n < d), as the pair <<m, f>> that
\* stands for m / 2^f
FloatOf(q, n, d) ==
    LET f  == FracBits(q, n, d)
        qr == MulDivRem(n, Pow2(f), d)
    IN  <<(q * Pow2(f)) + RoundEven(qr[1], qr[2], d), f>>

\* a faulty variant: the value is kept exactly, as if the field were no float
ExactFloat(x) == x

\* (float)x for the rational x = <<n, d>>, 2^-7 <= x < 2^24, as a rational
Float32(x) ==
    IF x[1] = 0 THEN <<0, 1>>
    ELSE LET v == FloatOf(x[1] \div x[2], x[1] % x[2], x[2])
         IN  Rat(v[1], Pow2(v[2]))

\* (long)(float)(q + n/d): the float nearest to the value, truncated
LongOfFloat(q, n, d) ==
    LET v == FloatOf(q, n, d)
    IN  v[1] \div Pow2(v[2])

----------------------------------------------------------------------------
(* State after program start: no card detected yet *)

\* pds_calloc(1, sizeof(struct intel_card_s))
CallocCard ==
    [ baseport_bm |-> 0, baseport_codec |-> 0, irq |-> 0, device_type |-> 0,
      pci_dev |-> NULL, dm |-> NULL,
      buffer_descriptor_list |-> NULL, pcmout_buffer |-> NULL,
      pcmout_bufsize |-> 0, period_size_bytes |-> 0,
      vra |-> 0, ac97_clock_detected |-> 0, ac97_clock_corrector |-> <<0, 1>> ]

\* one INTELICH_adetect call's allocations: made (0/1) and times released;
\* dmFreedBy is the host call that released the DMA memory, orphan tells that
\* a later INTELICH_adetect replaced the handle's pointer to this card
NoObjects ==
    [ card |-> 0, cardFrees |-> 0, pci |-> 0, pciFrees |-> 0,
      dm |-> 0, dmFrees |-> 0, dmFreedBy |-> "", orphan |-> FALSE ]

\* what is remembered of a host call: which one, what it returned, and
\* what it met on its way (a register not read is -1). cap: the sample
\* capability bits the chip reported; cr0: the control register when the
\* call began, lvi0 and civ0: the last valid and the current index then;
\* crpre, crwin, crpost: the control register before the clock test, between
\* the test's start and stop, and after the test; freq0: aui->freq_card when
\* INTELICH_setrate began, freqm: after the clock test (or where it would
\* have been), freqsel: as INTELICH_setrate hands it to
\* snd_intel_prepare_playback; vra0, det0: card->vra and
\* card->ac97_clock_detected when the call began.
NoCall ==
    [ op |-> "", ret |-> 0, id |-> 0, search |-> "",
      bm1 |-> -1, bm |-> -1, codec1 |-> -1, codec |-> -1,
      dmalloc |-> "", chipinit |-> FALSE, derived |-> FALSE, priv0 |-> NULL,
      ratio |-> <<0, 1>>, measured |-> FALSE,
      tries |-> 0, accepted |-> FALSE, good0 |-> 0,
      cont |-> FALSE, wrapped |-> FALSE,
      cap |-> {}, cr0 |-> {}, crpre |-> {}, crwin |-> {}, crpost |-> {},
      lvi0 |-> 0, civ0 |-> 0,
      freq0 |-> 0, freqm |-> 0, freqsel |-> 0, vra0 |-> 0, det0 |-> 0 ]

\* INTELICH_getbufpos in progress. pc: "idle" (no call), "loop" (about to
\* read the current index), "picb" (index read, position not yet); retry is
\* the loop counter, tries the attempts made, good0 the last good position
\* at the call's entry, index the current index as read. cont tells that a
\* call has returned with the engine running and the host has not started,
\* stopped or set up the channel since; wrapped that the engine has gone from
\* the last period to the first since the index read of that call's last
\* pass, inwrap that it has since the index read of the pass in progress.
GbIdle ==
    [ pc |-> "idle", retry |-> 0, tries |-> 0, good0 |-> 0, index |-> 0,
      cont |-> FALSE, wrapped |-> FALSE, inwrap |-> FALSE ]

\* what is remembered of one attempt of INTELICH_getbufpos: bad tells that
\* the count read was zero or above the period size, lvi is the last valid
\* index read for such a count
NoAttempt ==
    [ index |-> 0, retry0 |-> 0, retry1 |-> 0, picbread |-> FALSE,
      cleared |-> FALSE, civw |-> FALSE, under0 |-> FALSE, under1 |-> FALSE,
      accepted |-> FALSE, bad |-> FALSE, lvi |-> 0 ]

\* no bounded wait in progress. pc: "idle", "poll" (in a counted loop) or
\* "clock" (in the clock test's loop); call: the function waiting, i: which
\* of its loops, retry: the loop counter, polls: reads of the loop so far,
\* allout: every loop of the call so far ran out; for the clock test elapsed
\* is the time since starttime and checked the time the loop condition last
\* saw; done: the function that returned last. busy: the polls of the loop
\* in progress that saw its bit not as wanted; readyout: the last wait for
\* the codec ready bit ran out. Of the call's snd_intel_codec_semaphore
\* calls: acq how many have returned, and of the last of them acqready that
\* its readiness wait ran out, acqall that all ICH_DEFAULT_RETRY polls saw
\* the busy bit set, acqfirst that it returned on the first poll that saw it
\* clear, acqdummy that it made the dummy read; outw: the codec port writes
\* of the call
WtIdle ==
    [ pc |-> "idle", call |-> "", i |-> 0, retry |-> 0, polls |-> 0,
      allout |-> FALSE, elapsed |-> 0, checked |-> 0, done |-> "",
      busy |-> 0, readyout |-> FALSE, acq |-> 0, acqready |-> FALSE,
      acqall |-> FALSE, acqfirst |-> FALSE, acqdummy |-> FALSE, outw |-> 0 ]

\* no host call between two register accesses. cmd: the value the call has
\* read, irqcr: the interrupt handler has written the control register since
HsIdle == [ pc |-> "idle", cmd |-> {}, irqcr |-> FALSE ]

\* what is remembered of the last INTELICH_IRQRoutine invocation since
\* INTELICH_start: n invocations so far in all; ran: there was one; status
\* as read; lvi0 the last valid index at entry; lvi1, civ1, cr1 the
\* registers at return; acc the register accesses in order, <<"r" or "w",
\* port offset>>; ack the value of the last write; g0 the counters at
\* entry; lviw the values written to the last valid index register, in order
NoIrq ==
    [ n |-> 0, ran |-> FALSE, status |-> {}, lvi0 |-> 0, lvi1 |-> 0, civ1 |-> 0,
      cr1 |-> {}, acc |-> <<>>, ack |-> {}, lviw |-> <<>>,
      g0 |-> [ IOC_COUNT |-> 0, BUP_COUNT |-> 0, FIFO_COUNT |-> 0 ] ]

\* static int g_counts[SIS7012_DEBUG_LAST]
NoCounts == [ IOC_COUNT |-> 0, BUP_COUNT |-> 0, FIFO_COUNT |-> 0 ]

\* the state before the first call, on a machine that carries one of Devices
InitOn(Devices) ==
    /\ wt = WtIdle
    /\ hs = HsIdle
    /\ isr = NoIrq
    /\ g_counts = NoCounts
    /\ env \in [ SBEMU : BOOLEAN, bufsize : BufSizes, pci : Devices ]
    /\ aui = [ card_private_data |-> NULL, card_irq |-> 0, freq_card |-> 0,
               bits_set |-> 16, bits_card |-> 0, chan_card |-> 0,
               card_dmasize |-> 0, card_dma_lastgoodpos |-> 0,
               card_infobits |-> {}, card_DMABUFF |-> NULL,
               card_samples_per_int |-> 0 ]
    /\ card = CallocCard
    /\ heap = [ i \in 1..MaxDetects |-> NoObjects ]
    /\ \E g \in GlobCntInits :
         hw = [ cr |-> {}, lvi |-> 0, civ |-> 0, picb |-> 0, sr |-> {},
                glob_cnt |-> g, reg4c |-> {}, bdbar |-> 0,
                bdl |-> JunkBdl, pcm |-> "none",
                spdif |-> 0, dacrate |-> 0, dacby |-> "", vol |-> FALSE ]
    /\ gb = GbIdle
    /\ ub = "none"
    /\ last = NoCall
    /\ att = NoAttempt
    /\ ndetect = 0

Init == InitOn(BusDevices)

----------------------------------------------------------------------------
(* Register writes *)

\* the interrupt enable bits of the control register
CrIntEnables == {ICH_PO_CR_LVBIE, ICH_PO_CR_IOCE, ICH_PO_CR_FEIE}

\* snd_intel_write_8(card, ICH_PO_CR_REG, v): the register latches v; the
\* reset bit resets the PCM out channel, the interrupt enable bits
\* excepted, and clears itself; when the start
\* bit goes from 0 to 1 the engine leaves the halted state and fetches the
\* descriptor of the current index, if one is programmed and none is being
\* played; when it goes from 1 to 0 the engine halts
write_PO_CR(h, v) ==
    IF ICH_PO_CR_RESET \in v
    THEN [h EXCEPT !.cr = v \cap CrIntEnables, !.civ = 0, !.picb = 0,
                   !.lvi = 0, !.sr = {ICH_PO_SR_DCH}]
    ELSE IF ICH_PO_CR_START \in v /\ ICH_PO_CR_START \notin h.cr
    THEN IF h.picb = 0 /\ h.bdl[h.civ].len > 0
         THEN [h EXCEPT !.cr = v, !.picb = h.bdl[h.civ].len,
                        !.sr = @ \ {ICH_PO_SR_DCH}]
         ELSE [h EXCEPT !.cr = v,
                        !.sr = IF h.picb > 0 THEN @ \ {ICH_PO_SR_DCH} ELSE @]
    ELSE IF ICH_PO_CR_START \notin v /\ ICH_PO_CR_START \in h.cr
    THEN [h EXCEPT !.cr = v, !.sr = @ \cup {ICH_PO_SR_DCH}]
    ELSE [h EXCEPT !.cr = v]

\* snd_intel_write_8(card, ICH_PO_LVI_REG, v): the register keeps five bits.
\* An engine that halted at the last valid index with the start bit set goes
\* on with the next period of the ring once the index is moved off the
\* current one.
write_PO_LVI(h, v) ==
    LET nxt == (h.civ + 1) % ICH_DMABUF_PERIODS
    IN  IF /\ ICH_PO_CR_START \in h.cr
           /\ ICH_PO_SR_DCH \in h.sr
           /\ h.picb = 0
           /\ (v % 32) # h.civ
           /\ h.bdl[nxt].len > 0
        THEN [h EXCEPT !.lvi = v % 32, !.civ = nxt, !.picb = h.bdl[nxt].len,
                       !.sr = @ \ {ICH_PO_SR_DCH}]
        ELSE [h EXCEPT !.lvi = v % 32]

\* snd_intel_write_8(card, ICH_PO_SR_REG, v): the three interrupt bits are
\* cleared by writing 1 to them (R/WC), the halted bit is read-only
write_PO_SR(h, v) ==
    [h EXCEPT !.sr = @ \ (v \cap {ICH_PO_SR_LVBCI, ICH_PO_SR_BCIS, ICH_PO_SR_FIFO})]

----------------------------------------------------------------------------
(* Chip bring-up and release *)

\* ICH_GLOB_CNT_ACLINKOFF | ICH_SIS_PCM_246_MASK and
\* ICH_GLOB_CNT_ACLINKOFF | ICH_PCM_246_MASK, as sets of bits
LinkOffSisMask == Bits(ICH_GLOB_CNT_ACLINKOFF) \cup Bits(ICH_SIS_PCM_246_MASK)
LinkOffMask == Bits(ICH_GLOB_CNT_ACLINKOFF) \cup Bits(ICH_PCM_246_MASK)

\* warmClears: the hardware clears the warm reset bit within the retry budget
snd_intel_chip_init(c, h, sbemu, warmClears) ==
    LET mask == IF c.device_type = DEVICE_SIS THEN LinkOffSisMask ELSE LinkOffMask
        cmd0 == h.glob_cnt \ mask
        \* finish cold or do warm reset
        cmd  == cmd0 \cup (IF ICH_GLOB_CNT_AC97COLD \notin cmd0
                           THEN {ICH_GLOB_CNT_AC97COLD}
                           ELSE {ICH_GLOB_CNT_AC97WARM})
        cnt  == IF warmClears THEN cmd \ {ICH_GLOB_CNT_AC97WARM} ELSE cmd
        h1   == [h EXCEPT !.glob_cnt = cnt]
        \* reset channels
        h2   == write_PO_CR(h1, {ICH_PO_CR_RESET})
        h3   == IF sbemu
                THEN write_PO_CR(h2, {ICH_PO_CR_LVBIE, ICH_PO_CR_IOCE, ICH_PO_CR_FEIE})
                ELSE h2
    IN  IF c.device_type = DEVICE_SIS
        THEN [h3 EXCEPT !.reg4c = @ \cup {1}]
        ELSE h3

snd_intel_chip_close(c, h) ==
    IF c.baseport_bm # 0 THEN write_PO_CR(h, {ICH_PO_CR_RESET}) ELSE h

\* the variable rate probe as it would run if it were compiled in, on a
\* codec that has the feature
ac97_vra_probe_enabled(c) == [c EXCEPT !.vra = 1]

\* the variable rate probe of snd_intel_ac97_init is between #if 0 and
\* #endif: the card structure is left as it is
ac97_vra_probe(c) == c

\* initial ac97 volumes, SPDIF on
snd_intel_ac97_init(c, h) == [h EXCEPT !.vol = TRUE]

\* MDma_alloc_cardmem(size) of INTELICH_adetect call id: the allocation, or
\* NULL when the allocator has no memory to give
MDma_alloc_cardmem(ok, id) == IF ok THEN id ELSE NULL

\* MDma_free_cardmem(dm): releases the allocation; a null dm is ignored
MDma_free_cardmem(hp, dm, by) ==
    IF dm = NULL THEN hp
    ELSE [hp EXCEPT ![dm].dmFrees = @ + 1, ![dm].dmFreedBy = by]

\* pds_free of the PCI record and of the card of INTELICH_adetect call id
pds_free_pci(hp, id) == [hp EXCEPT ![id].pciFrees = @ + 1]
pds_free_card(hp, id) == [hp EXCEPT ![id].cardFrees = @ + 1]

\* a faulty variant: the DMA memory is not released
INTELICH_close_leak(a, c, hp, h, by) ==
    IF a.card_private_data = NULL
    THEN [aui |-> a, card |-> c, heap |-> hp, hw |-> h]
    ELSE [ aui  |-> [a EXCEPT !.card_private_data = NULL],
           card |-> CallocCard,
           heap |-> pds_free_card(
                      IF c.pci_dev # NULL THEN pds_free_pci(hp, c.pci_dev) ELSE hp,
                      a.card_private_data),
           hw   |-> snd_intel_chip_close(c, h) ]

\* a faulty variant: the PCI record is not released
INTELICH_close_keeppci(a, c, hp, h, by) ==
    IF a.card_private_data = NULL
    THEN [aui |-> a, card |-> c, heap |-> hp, hw |-> h]
    ELSE [ aui  |-> [a EXCEPT !.card_private_data = NULL],
           card |-> CallocCard,
           heap |-> pds_free_card(MDma_free_cardmem(hp, c.dm, by),
                                  a.card_private_data),
           hw   |-> snd_intel_chip_close(c, h) ]

\* INTELICH_close(aui): the handle, the card, the allocator's book and the
\* hardware after the call; by is the host call it runs in
INTELICH_close(a, c, hp, h, by) ==
    IF a.card_private_data = NULL
    THEN [aui |-> a, card |-> c, heap |-> hp, hw |-> h]
    ELSE LET hp1 == MDma_free_cardmem(hp, c.dm, by)
             hp2 == IF c.pci_dev # NULL THEN pds_free_pci(hp1, c.pci_dev) ELSE hp1
             hp3 == pds_free_card(hp2, a.card_private_data)
         IN  [ aui  |-> [a EXCEPT !.card_private_data = NULL],
               card |-> CallocCard,
               heap |-> hp3,
               hw   |-> snd_intel_chip_close(c, h) ]

\* what snd_intel_buffer_init leaves in the card, the handle and the DMA
\* memory when MDma_alloc_cardmem gave allocation number id
snd_intel_buffer_init(c, a, h, id, sbemu, bufsize) ==
    LET bdlsize == ICH_DMABUF_MAX_PERIODS * ICH_BDL_ENTRY_SIZE
        c1 == [c EXCEPT !.pcmout_bufsize = bufsize,
                        !.dm = id,
                        !.buffer_descriptor_list = dm_linearptr(id),
                        !.pcmout_buffer = dm_linearptr(id) + bdlsize]
    IN  [ card |-> c1,
          aui  |-> [a EXCEPT !.card_DMABUFF = c1.pcmout_buffer],
          hw   |-> [h EXCEPT !.bdl = JunkBdl,
                             !.pcm = IF sbemu THEN "zero" ELSE "junk"] ]

----------------------------------------------------------------------------
(* INTELICH_adetect *)

\* the host runs one driver call at a time, and none after the program died
HostIdle == ub = "none" /\ gb.pc = "idle" /\ hs.pc = "idle" /\ wt.pc = "idle"

\* the base address the SBEMU build assigns when the BIOS set none:
\* 0xF000 & ~0x3F for the bus master, (0xF000 - 256) & ~0xFF for the mixer
IobaseBm == 61440
IobaseCodec == 61184

\* the value of a base address register as INTELICH_adetect ends up with:
\* raw is the first read; sticks tells whether the register keeps the value
\* the SBEMU build writes when the first read is zero
ReadBar(raw, sbemu, iobase, sticks) ==
    IF sbemu /\ MaskFFF0(raw) = 0
    THEN (IF sticks THEN MaskFFF0(iobase + 1) ELSE 0)
    ELSE MaskFFF0(raw)

\* the interrupt line: the SBEMU build forces 11 when none is set
ReadIrq(raw, sbemu) == IF sbemu /\ (raw = 255 \/ raw = 0) THEN 11 ELSE raw

\* err_adetect: INTELICH_close(aui); return 0
ErrAdetect(a, c, hp, h, call) ==
    \E r \in { INTELICH_close(a, c, hp, h, "adetect") } :
        /\ aui' = r.aui
        /\ card' = r.card
        /\ heap' = r.heap
        /\ hw' = r.hw
        /\ ub' = ub
        /\ last' = [call EXCEPT !.ret = 0]

\* the table's device type of the function on the bus
FoundType(found) == ich_devices[CHOOSE i \in found : TRUE].device_type

INTELICH_adetect(cardAlloc, pciAlloc, bmRaw, bmSticks, cdRaw, cdSticks, irqRaw, dmAlloc, warmClears, trap) ==
    LET id    == ndetect + 1
        call0 == [NoCall EXCEPT !.op = "adetect", !.id = id,
                                !.priv0 = aui.card_private_data]
        a1    == [aui EXCEPT !.card_private_data = id]
        \* the card the handle pointed to is no longer reachable
        hp0   == IF aui.card_private_data # NULL
                 THEN [heap EXCEPT ![aui.card_private_data].orphan = TRUE]
                 ELSE heap
        hp1   == [hp0 EXCEPT ![id].card = 1]
        c2    == [CallocCard EXCEPT !.pci_dev = id]
        hp2   == [hp1 EXCEPT ![id].pci = 1]
        found == pcibios_search_devices(env.pci[1], env.pci[2])
        call2 == [call0 EXCEPT !.search = IF found = {} THEN "notfound" ELSE "found"]
        bm    == ReadBar(bmRaw, env.SBEMU, IobaseBm, bmSticks)
        c3    == [c2 EXCEPT !.baseport_bm = bm]
        call3 == [call2 EXCEPT !.bm1 = MaskFFF0(bmRaw), !.bm = bm]
        cd    == ReadBar(cdRaw, env.SBEMU, IobaseCodec, cdSticks)
        c4    == [c3 EXCEPT !.baseport_codec = cd]
        call4 == [call3 EXCEPT !.codec1 = MaskFFF0(cdRaw), !.codec = cd]
        irq   == ReadIrq(irqRaw, env.SBEMU)
        c5    == [c4 EXCEPT !.irq = irq, !.device_type = FoundType(found)]
        a5    == [a1 EXCEPT !.card_irq = irq]
        dm    == MDma_alloc_cardmem(dmAlloc, id)
    IN  /\ ndetect' = id
        /\ UNCHANGED <<env, wt, hs, isr, g_counts, att>>
        /\ gb' = IF cardAlloc THEN GbIdle ELSE gb
        /\ IF ~cardAlloc
           THEN \* pds_calloc gave no card: return 0, the handle is not touched
                /\ UNCHANGED <<aui, card, heap, hw, ub>>
                /\ last' = [call0 EXCEPT !.ret = 0]
           ELSE IF ~pciAlloc
           THEN ErrAdetect(a1, CallocCard, hp1, hw, call0)
           ELSE IF found = {}
           THEN ErrAdetect(a1, c2, hp2, hw, call2)
           ELSE IF bm = 0
           THEN ErrAdetect(a1, c3, hp2, hw, call3)
           ELSE IF cd = 0
           THEN ErrAdetect(a1, c4, hp2, hw, call4)
           ELSE IF dm # NULL
           THEN \E b \in { snd_intel_buffer_init(c5, a5, hw, dm, env.SBEMU,
                                                 env.bufsize) } :
                    /\ aui' = b.aui
                    /\ card' = ac97_vra_probe(b.card)
                    /\ heap' = [hp2 EXCEPT ![id].dm = 1]
                    /\ hw' = snd_intel_ac97_init(b.card,
                                snd_intel_chip_init(b.card, b.hw, env.SBEMU, warmClears))
                    /\ ub' = ub
                    /\ last' = [call4 EXCEPT !.ret = 1, !.dmalloc = "ok",
                                             !.chipinit = TRUE, !.derived = TRUE]
           ELSE \* MDma_alloc_cardmem gave NULL: snd_intel_buffer_init reads
                \* card->dm->linearptr through the null pointer. Either the
                \* read traps, or it yields some value, the buffer pointers
                \* are derived from it, 1 is returned and the chip is set up.
                /\ aui' = a5
                /\ card' = IF trap
                           THEN [c5 EXCEPT !.pcmout_bufsize = env.bufsize]
                           ELSE ac97_vra_probe([c5 EXCEPT !.pcmout_bufsize = env.bufsize])
                /\ heap' = hp2
                /\ IF trap
                   THEN /\ hw' = hw
                        /\ ub' = "trap: card->dm->linearptr, dm is NULL"
                        /\ last' = [call4 EXCEPT !.ret = -1, !.dmalloc = "fail"]
                   ELSE /\ hw' = snd_intel_ac97_init(c5,
                                   snd_intel_chip_init(c5, hw, env.SBEMU, warmClears))
                        /\ ub' = "wild pointer: card->dm->linearptr, dm is NULL"
                        /\ last' = [call4 EXCEPT !.ret = 1, !.dmalloc = "fail",
                                                 !.chipinit = TRUE, !.derived = TRUE]

\* One INTELICH_adetect call with the allocators' answers drawn from Allocs,
\* the base address registers from Bars and the interrupt line from Irqs; an
\* input is drawn only when the call gets as far as reading it.
DetectFrom(Allocs, Bars, Irqs) ==
    /\ HostIdle
    /\ \E cardAlloc \in Allocs :
       \E pciAlloc \in (IF cardAlloc THEN Allocs ELSE {TRUE}) :
       LET s1 == cardAlloc /\ pciAlloc
                 /\ pcibios_search_devices(env.pci[1], env.pci[2]) # {}
       IN
       \E bmRaw \in (IF s1 THEN Bars ELSE {0}) :
       \E bmSticks \in (IF s1 /\ env.SBEMU /\ bmRaw = 0 THEN BOOLEAN ELSE {FALSE}) :
       LET s2 == s1 /\ ReadBar(bmRaw, env.SBEMU, IobaseBm, bmSticks) # 0
       IN
       \E cdRaw \in (IF s2 THEN Bars ELSE {0}) :
       \E cdSticks \in (IF s2 /\ env.SBEMU /\ cdRaw = 0 THEN BOOLEAN ELSE {FALSE}) :
       LET s3 == s2 /\ ReadBar(cdRaw, env.SBEMU, IobaseCodec, cdSticks) # 0
       IN
       \E irqRaw \in (IF s3 THEN Irqs ELSE {255}) :
       \E dmAlloc \in (IF s3 THEN Allocs ELSE {TRUE}) :
       \E trap \in (IF dmAlloc THEN {FALSE} ELSE BOOLEAN) :
       \E warmClears \in (IF s3 /\ ICH_GLOB_CNT_AC97COLD \in hw.glob_cnt
                          THEN BOOLEAN ELSE {TRUE}) :
         INTELICH_adetect(cardAlloc, pciAlloc, bmRaw, bmSticks, cdRaw, cdSticks,
                          irqRaw, dmAlloc, warmClears, trap)

\* detection on any machine, with any allocator
Detect == ndetect < MaxDetects /\ DetectFrom(BOOLEAN, BarRaws, IrqRaws)

\* the one detection of a playback session: memory is there, the BIOS has
\* set the base addresses and the interrupt line
DetectCard == ndetect = 0 /\ DetectFrom({TRUE}, {BarSet}, {IrqSet})

----------------------------------------------------------------------------
(* snd_intel_prepare_playback *)

\* (long)((float)freq * corrector) and (long)((float)freq / corrector): the
\* float product and quotient, truncated
TimesCorrector(freq, corr) ==
    LET qr == MulDivRem(freq, corr[1], corr[2])
    IN  LongOfFloat(qr[1], qr[2], corr[2])

OverCorrector(freq, corr) ==
    LET qr == MulDivRem(freq, corr[2], corr[1])
    IN  LongOfFloat(qr[1], qr[2], corr[1])

\* the member of {32000, 44100, 48000} nearest to a frequency: 38050 and
\* 46050 lie half way
SpdifNearest(freq) ==
    IF freq <= 38050 THEN 32000
    ELSE IF freq <= 46050 THEN 44100
    ELSE 48000

\* the SPDIF sample rate selected for a card frequency (AC97_SC_SPSR_*)
SpdifRate(freq) ==
    CASE freq = 32000 -> 32000
      [] freq = 44100 -> 44100
      [] OTHER -> 48000

\* the capability test against the whole field instead of one value of it
SampleCapWhole == Bits(ICH_SAMPLE_CAP)

SampleCap1620 == Bits(ICH_SAMPLE_16_20)
Pcm20Bit == Bits(ICH_PCM_20BIT)
Pcm246Mask == Bits(ICH_PCM_246_MASK)
SisPcm246Mask == Bits(ICH_SIS_PCM_246_MASK)

\* a faulty variant: the length in bytes on every family
BdlLenBytes(c, samples) == c.period_size_bytes

\* the second word of a used descriptor, low and high half: the length, and
\* in the SBEMU build the IOC flag in bit 31
BdlLenWord(c, samples) ==
    IF c.device_type = DEVICE_SIS THEN c.period_size_bytes ELSE samples

\* a faulty variant: one entry too many is filled in
PeriodTableOneMore(c, samples, sbemu) ==
    [ i \in 0..(ICH_DMABUF_MAX_PERIODS - 1) |->
        IF i <= ICH_DMABUF_PERIODS
        THEN [addr |-> pds_cardmem_physicalptr(c.dm,
                          c.pcmout_buffer + i * c.period_size_bytes),
              len |-> samples % 65536, ctl |-> 0]
        ELSE [addr |-> 0, len |-> 0, ctl |-> 0] ]

\* the period table: ICH_DMABUF_PERIODS used entries, the rest zero
PeriodTable(c, samples, sbemu) ==
    [ i \in 0..(ICH_DMABUF_MAX_PERIODS - 1) |->
        IF i < ICH_DMABUF_PERIODS
        THEN BdlSlot(pds_cardmem_physicalptr(c.dm,
                        c.pcmout_buffer + i * c.period_size_bytes),
                     BdlLenWord(c, samples) % 65536,
                     (BdlLenWord(c, samples) \div 65536)
                        + (IF sbemu THEN ICH_BD_IOC ELSE 0))
        ELSE BdlSlot(0, 0, 0) ]

\* the card frequency and the DAC rate written for it: with a corrector
\* and no variable rate the corrected frequency goes to both
DacRate(c, freq) ==
    IF c.ac97_clock_corrector = <<0, 1>>
    THEN [freq_card |-> freq, dac |-> freq, by |-> "plain"]
    ELSE IF c.vra # 0
    THEN [freq_card |-> freq, dac |-> TimesCorrector(freq, c.ac97_clock_corrector),
          by |-> "times"]
    ELSE [freq_card |-> OverCorrector(freq, c.ac97_clock_corrector),
          dac |-> OverCorrector(freq, c.ac97_clock_corrector), by |-> "over"]

\* sampleCap: the sample capability bits of the global status register
snd_intel_prepare_playback(c, a, h, sbemu, sampleCap) ==
    LET wide == /\ c.device_type # DEVICE_SIS
                /\ a.bits_set > 16
                /\ c.device_type = DEVICE_INTEL_ICH4
                /\ sampleCap = SampleCap1620
        bits_card == IF wide THEN 32 ELSE a.bits_card
        period_size_samples == c.period_size_bytes \div (bits_card \div 8)
        Program(h1, rate) ==
            [ aui |-> [a EXCEPT
                        !.bits_card = bits_card,
                        !.freq_card = rate.freq_card,
                        !.card_samples_per_int =
                            IF sbemu THEN period_size_samples \div 2 ELSE @],
              hw  |-> [h1 EXCEPT
                        \* set channels (2) and bits (16/32)
                        !.glob_cnt =
                            IF c.device_type = DEVICE_SIS
                            THEN @ \ SisPcm246Mask
                            ELSE (@ \ (Pcm246Mask \cup Pcm20Bit))
                                    \cup (IF wide THEN Pcm20Bit ELSE {}),
                        !.spdif = SpdifRate(a.freq_card),
                        !.dacrate = rate.dac,
                        !.dacby = rate.by,
                        !.bdl = PeriodTable(c, period_size_samples, sbemu),
                        !.bdbar = pds_cardmem_physicalptr(c.dm, c.buffer_descriptor_list),
                        \* set last index; the write to the read-only current
                        \* index changes nothing
                        !.lvi = ICH_DMABUF_PERIODS - 1,
                        \* clear interrupts
                        !.sr = @ \ {ICH_PO_SR_LVBCI, ICH_PO_SR_BCIS, ICH_PO_SR_FIFO}] ]
    IN  \* reset codec, then program the channel
        Program(write_PO_CR(h, h.cr \cup {ICH_PO_CR_RESET}), DacRate(c, a.freq_card))

----------------------------------------------------------------------------
(* INTELICH_close, called by the host *)

Close ==
    /\ HostIdle
    /\ \E r \in { INTELICH_close(aui, card, heap, hw, "close") } :
           /\ aui' = r.aui
           /\ card' = r.card
           /\ heap' = r.heap
           /\ hw' = r.hw
    /\ last' = [NoCall EXCEPT !.op = "close", !.priv0 = aui.card_private_data]
    /\ gb' = IF aui.card_private_data = NULL THEN gb ELSE GbIdle
    /\ UNCHANGED <<env, wt, hs, isr, g_counts, ub, att, ndetect>>

----------------------------------------------------------------------------
(* INTELICH_start, INTELICH_stop *)

\* the value INTELICH_start writes for the value it has read
StartValue(cmd) == cmd \cup {ICH_PO_CR_LVBIE, ICH_PO_CR_IOCE, ICH_PO_CR_START}

\* only the SBEMU build writes the control register
INTELICH_start(h, sbemu) ==
    IF sbemu
    THEN write_PO_CR(h, StartValue(h.cr))
    ELSE h

\* funcbit_disable(cmd,ICH_PO_CR_START)
StopValue(cmd) == cmd \ {ICH_PO_CR_START}

\* clear ICH_PO_CR_START flag
INTELICH_stop(h) == write_PO_CR(h, StopValue(h.cr))

\* the host calls these with a card in the handle
HasCard == aui.card_private_data # NULL

Start ==
    /\ HostIdle
    /\ HasCard
    /\ hw' = INTELICH_start(hw, env.SBEMU)
    /\ last' = [NoCall EXCEPT !.op = "start", !.priv0 = aui.card_private_data,
                              !.cr0 = hw.cr, !.lvi0 = hw.lvi, !.civ0 = hw.civ]
    /\ gb' = GbIdle
    /\ UNCHANGED <<env, wt, hs, isr, g_counts, aui, card, heap, ub, att, ndetect>>

\* INTELICH_stop reads card->baseport_bm without looking at the pointer:
\* with no card in the handle the read goes through the null pointer, and
\* either traps or yields some port number that is then read and written
Stop ==
    /\ HostIdle
    /\ last' = [NoCall EXCEPT !.op = "stop", !.priv0 = aui.card_private_data]
    /\ IF HasCard
       THEN /\ hw' = INTELICH_stop(hw)
            /\ ub' = ub
       ELSE /\ hw' = hw
            /\ ub' \in { "trap: card->baseport_bm, card is NULL",
                         "wild port: card->baseport_bm, card is NULL" }
    /\ gb' = GbIdle
    /\ UNCHANGED <<env, wt, hs, isr, g_counts, aui, card, heap, att, ndetect>>

----------------------------------------------------------------------------
(* snd_intel_measure_ac97_clock, INTELICH_setrate *)

\* MDma_init_pcmoutbuf(aui, maxbufsize, ...): declares the DMA buffer size
MDma_init_pcmoutbuf(a, maxbufsize) == [a EXCEPT !.card_dmasize = maxbufsize]

\* MDma_clearbuf(aui)
MDma_clearbuf(h) == [h EXCEPT !.pcm = "zero"]

Min(x, y) == IF x < y THEN x ELSE y

\* dataspeed / sentspeed for a test of timelen microseconds over dmabufsize
\* bytes: nominal / (dmabufsize * 1000000 / timelen), as an exact fraction
ClockRatio(nominal, dmabufsize, timelen) ==
    LET g == GCD(nominal, 1000000)
    IN  Rat((nominal \div g) * timelen, dmabufsize * (1000000 \div g))

\* the corrector kept for a measured ratio, stored in the float field: no
\* float lies between the double constants 0.99, 1.01, 0.60 and the exact
\* 99/100, 101/100, 60/100, so the float compares alike against either
ClockCorrector(ratio) ==
    LET c1 == IF RatLess(<<99, 100>>, ratio) /\ RatLess(ratio, <<101, 100>>)
              THEN <<0, 1>> ELSE ratio
    IN  IF RatLess(c1, <<60, 100>>) \/ RatLess(<<15, 10>>, c1)
        THEN <<0, 1>> ELSE c1

\* The elapsed times (microseconds) the test may measure. The test waits
\* for the current index to reach the last period, for one second at most:
\* the polling build never sets the start bit, so there the wait always
\* runs out.
TimeLens(sbemu) ==
    IF sbemu
    THEN { 0, 38399, 38400, 63360, 64000, 64640, 76800, 96000, 96064,
           126720, 129280, 192000, 1000000 }
    ELSE { 1000001 }

\* the times of a test on a well-clocked machine
GoodTimeLens(sbemu) == IF sbemu THEN { 64000 } ELSE { 1000001 }

\* timelen: endtime - starttime of the test, 0 if the clock did not advance
snd_intel_measure_ac97_clock(c, a, h, sbemu, timelen) ==
    LET freq_save == a.freq_card
        a1 == [a EXCEPT !.freq_card = 48000, !.chan_card = 2, !.bits_card = 16]
        size == Min(c.pcmout_bufsize, AUCARDS_DMABUFSIZE_NORMAL)
        a2 == MDma_init_pcmoutbuf(a1, size)
        c1 == [c EXCEPT !.period_size_bytes = a2.card_dmasize \div ICH_DMABUF_PERIODS]
        Test(p) ==
            LET h1 == MDma_clearbuf(p.hw)
                cr == h1.cr
                \* disable LVBIE/IOCE
                h2 == IF sbemu THEN write_PO_CR(h1, {}) ELSE h1
                h3 == INTELICH_start(h2, sbemu)
                h4 == INTELICH_stop(h3)
                h5 == IF sbemu THEN write_PO_CR(h4, cr) ELSE h4
                dmabufsize == c1.period_size_bytes * (ICH_DMABUF_PERIODS - 1)
                valid == timelen # 0 /\ timelen < 1000000
                ratio == IF valid
                         THEN ClockRatio(p.aui.freq_card * p.aui.chan_card
                                            * (p.aui.bits_card \div 8),
                                         dmabufsize, timelen)
                         ELSE <<0, 1>>
                c2 == IF valid
                      THEN [c1 EXCEPT !.ac97_clock_corrector =
                                        ClockCorrector(Float32(ratio))]
                      ELSE c1
            IN  [ card |-> [c2 EXCEPT !.ac97_clock_detected = 1],
                  aui  |-> [p.aui EXCEPT !.freq_card = freq_save],
                  hw   |-> h5,
                  ratio |-> ratio,
                  crpre |-> cr, crwin |-> h3.cr, crpost |-> h5.cr ]
    IN  Test(snd_intel_prepare_playback(c1, a2, h, sbemu, {}))

\* a test whenever the card is of the standard family
NeedsClockTestEveryTime(c) == c.device_type = DEVICE_INTEL

\* if((card->device_type==DEVICE_INTEL) && !card->ac97_clock_detected)
NeedsClockTest(c) == c.device_type = DEVICE_INTEL /\ c.ac97_clock_detected = 0

\* a faulty variant: the request is kept within the span whatever the flag
CardRateClamped(vra, freq) ==
    IF freq < 8000 THEN 8000 ELSE IF freq > 48000 THEN 48000 ELSE freq

\* the card frequency for a request: 48000 without variable rate, else the
\* request kept within 8000..48000
CardRate(vra, freq) ==
    IF vra = 0 THEN 48000
    ELSE IF freq < 8000 THEN 8000
    ELSE IF freq > 48000 THEN 48000
    ELSE freq

INTELICH_setrate(c, a, h, sbemu, timelen, sampleCap) ==
    LET measure == NeedsClockTest(c)
        Rate(m) ==
            LET a1 == [m.aui EXCEPT !.chan_card = 2, !.bits_card = 16]
                a2 == [a1 EXCEPT !.freq_card = CardRate(m.card.vra, a1.freq_card)]
                a3 == MDma_init_pcmoutbuf(a2, m.card.pcmout_bufsize)
                c1 == [m.card EXCEPT
                         !.period_size_bytes = a3.card_dmasize \div ICH_DMABUF_PERIODS]
                Done(p) == [ card |-> c1, aui |-> p.aui, hw |-> p.hw,
                             measured |-> measure, ratio |-> m.ratio,
                             crpre |-> m.crpre, crwin |-> m.crwin,
                             crpost |-> m.crpost,
                             freqm |-> m.aui.freq_card, freqsel |-> a3.freq_card ]
            IN  Done(snd_intel_prepare_playback(c1, a3, m.hw, sbemu, sampleCap))
    IN  Rate(IF measure
             THEN snd_intel_measure_ac97_clock(c, a, h, sbemu, timelen)
             ELSE [card |-> c, aui |-> a, hw |-> h, ratio |-> <<0, 1>>,
                   crpre |-> {}, crwin |-> {}, crpost |-> {}])

\* what the host asks for
ReqFreqs == { 4000, 44100, 96000 }
ReqBits == { 16, 24 }

\* the sample capability bits a chip may report: 16-bit only, 16- and
\* 20-bit, or both bits of ICH_SAMPLE_CAP
SampleCaps == { {}, Bits(ICH_SAMPLE_16_20), Bits(ICH_SAMPLE_CAP) }

\* INTELICH_setrate on the card structure c for a request from Freqs and
\* Bitss; Times are the times the clock test may take, Caps the capability
\* bits of a chip that is not asked for them
SetRateOn(c, Freqs, Bitss, Times, Caps) ==
    /\ HostIdle
    /\ HasCard
    /\ \E freq \in Freqs, bits \in Bitss :
       \E timelen \in (IF c.device_type = DEVICE_INTEL /\ c.ac97_clock_detected = 0
                       THEN Times ELSE {0}) :
       \E cap \in (IF c.device_type = DEVICE_INTEL_ICH4 /\ bits > 16
                   THEN SampleCaps ELSE Caps) :
         \E r \in { INTELICH_setrate(c,
                        [aui EXCEPT !.freq_card = freq, !.bits_set = bits],
                        hw, env.SBEMU, timelen, cap) } :
             /\ card' = r.card
             /\ aui' = r.aui
             /\ hw' = r.hw
             /\ last' = [NoCall EXCEPT !.op = "setrate", !.priv0 = aui.card_private_data,
                                       !.ratio = r.ratio,
                                       !.measured = r.measured,
                                       !.cap = cap, !.cr0 = hw.cr,
                                       !.crpre = r.crpre, !.crwin = r.crwin,
                                       !.crpost = r.crpost,
                                       !.freq0 = freq, !.freqm = r.freqm,
                                       !.freqsel = r.freqsel,
                                       !.vra0 = c.vra,
                                       !.det0 = c.ac97_clock_detected]
    /\ gb' = GbIdle
    /\ UNCHANGED <<env, wt, hs, isr, g_counts, heap, ub, att, ndetect>>

\* INTELICH_setrate on the card of the handle
SetRateFrom(Freqs, Bitss, Times, Caps) == SetRateOn(card, Freqs, Bitss, Times, Caps)

SetRate == SetRateFrom(ReqFreqs, ReqBits, TimeLens(env.SBEMU), SampleCaps)

\* the rate set the way a playback session does
SetRatePlay == SetRateFrom({44100}, {24}, GoodTimeLens(env.SBEMU), {{}})

\* INTELICH_setrate as a function of the request and of the variable rate
\* flag: the frequencies a host may ask for, below, inside and above the
\* span of the codec, and the card structure with the flag clear or set
RateFreqs == { 4000, 8000, 32000, 33000, 40000, 44100, 48000, 96000 }

VraFlags == { 0, 1 }

SetRateVra ==
    \E v \in VraFlags :
        SetRateOn([card EXCEPT !.vra = v], RateFreqs, ReqBits,
                  GoodTimeLens(env.SBEMU) \cup (IF env.SBEMU THEN {96000} ELSE {}),
                  SampleCaps)

\* the card's rate has been set: the buffer size is declared and the ring
\* programmed
RateSet == HasCard /\ card.period_size_bytes # 0

----------------------------------------------------------------------------
(* INTELICH_writedata *)

\* MDma_writedata(aui, src, left): samples go into the DMA buffer
MDma_writedata(h) == [h EXCEPT !.pcm = "data"]

WriteData ==
    /\ HostIdle
    /\ RateSet
    /\ hw' = MDma_writedata(hw)
    /\ last' = [NoCall EXCEPT !.op = "writedata", !.priv0 = aui.card_private_data]
    /\ UNCHANGED <<env, wt, hs, isr, g_counts, aui, card, heap, gb, ub, att, ndetect>>

----------------------------------------------------------------------------
(* INTELICH_getbufpos *)

\* retry=3
GETBUFPOS_RETRY == 3

\* AUINFOS_CARDINFOBIT_DMAUNDERRUN, as a member of aui.card_infobits
DMAUNDERRUN == "DMAUNDERRUN"

\* a faulty variant: bufpos <= aui->card_dmasize
InBufferInclusive(bufpos, dmasize) == ~U32Less(dmasize, bufpos)

\* bufpos < aui->card_dmasize, both unsigned
InBuffer(bufpos, dmasize) == U32Less(bufpos, dmasize)

\* a faulty variant: the position is remembered before it is checked
RememberAlways(a, bufpos, ok) == [a EXCEPT !.card_dma_lastgoodpos = bufpos]

\* aui->card_dma_lastgoodpos = bufpos, for a position inside the buffer only
RememberPos(a, bufpos, ok) ==
    IF ok THEN [a EXCEPT !.card_dma_lastgoodpos = bufpos] ELSE a

\* a faulty variant: every pass that meets a bad index recovers
BadIndexEveryPass(retry) == TRUE

\* the polling build's handling of a current index that is no period of the
\* ring: the earlier passes only go round again, the last one clears the
\* buffer, writes 0 to the (read-only) current index and flags the underrun
BadIndexLastPass(retry) == ~(retry > 1)

\* One pass of the loop on the values read: index and civ2 from the current
\* index register (civ2 is the verifying read), picb from the position
\* register, lvi from the last valid index register. Unsigned 32-bit
\* arithmetic: a difference below zero stands for that value plus 2^32.
getbufpos_pass(c, a, h, sbemu, retry, index, picb, lvi, civ2) ==
    LET under0 == DMAUNDERRUN \in a.card_infobits
        flagged == [a EXCEPT !.card_infobits = @ \cup {DMAUNDERRUN}]
        att0 == [NoAttempt EXCEPT !.index = index, !.retry0 = retry,
                                  !.retry1 = retry - 1,
                                  !.under0 = under0, !.under1 = under0]
    IN  IF ~sbemu /\ index >= ICH_DMABUF_PERIODS
        THEN IF ~BadIndexLastPass(retry)
             THEN [aui |-> a, hw |-> h, att |-> att0]
             ELSE [aui |-> flagged, hw |-> MDma_clearbuf(h),
                   att |-> [att0 EXCEPT !.cleared = TRUE, !.civw = TRUE,
                                        !.under1 = TRUE]]
        ELSE LET pcmpos == IF c.device_type # DEVICE_SIS
                           THEN picb * (a.bits_card \div 8)
                           ELSE picb
                 bad == pcmpos = 0 \/ pcmpos > c.period_size_bytes
                 drained == bad /\ lvi = index
                 a1 == IF drained THEN flagged ELSE a
                 h1 == IF drained THEN MDma_clearbuf(h) ELSE h
                 att1 == [att0 EXCEPT !.picbread = TRUE, !.cleared = drained,
                                      !.under1 = under0 \/ drained,
                                      !.bad = bad, !.lvi = lvi]
                 bufpos == (index * c.period_size_bytes)
                              + (c.period_size_bytes - pcmpos)
                 ok == InBuffer(bufpos, a.card_dmasize)
             IN  IF ~sbemu /\ (bad \/ civ2 # index)
                 THEN [aui |-> a1, hw |-> h1, att |-> att1]
                 ELSE [aui |-> RememberPos(a1, bufpos, ok), hw |-> h1,
                       att |-> [att1 EXCEPT !.accepted = ok,
                                            !.retry1 = IF ok THEN retry
                                                       ELSE retry - 1]]

\* The pass of the call in progress (or the first pass of a new call) with
\* the loop counter retry, on the values read. The call returns when a pass
\* accepts a position or the counter reaches zero.
GetBufPosPass(retry, tries, good0, index, picb, lvi, civ2) ==
    \E r \in { getbufpos_pass(card, aui, hw, env.SBEMU, retry,
                              index, picb, lvi, civ2) } :
        /\ aui' = r.aui
        /\ hw' = r.hw
        /\ att' = r.att
        /\ IF r.att.accepted \/ r.att.retry1 = 0
           THEN /\ gb' = [GbIdle EXCEPT
                            !.cont = (ICH_PO_CR_START \in r.hw.cr /\ r.hw.picb > 0),
                            !.wrapped = gb.inwrap]
                /\ last' = [NoCall EXCEPT
                              !.op = "getbufpos",
                              !.priv0 = aui.card_private_data,
                              !.ret = r.aui.card_dma_lastgoodpos,
                              !.tries = tries,
                              !.accepted = r.att.accepted,
                              !.good0 = good0,
                              !.cont = gb.cont,
                              !.wrapped = gb.wrapped]
           ELSE /\ gb' = [gb EXCEPT !.pc = "loop", !.retry = r.att.retry1,
                                    !.tries = tries, !.good0 = good0]
                /\ last' = NoCall
        /\ UNCHANGED <<env, wt, hs, isr, g_counts, card, heap, ub, ndetect>>

\* the host asks for the position of a card whose rate is set; a call in
\* progress goes on
GbCanRead == ub = "none" /\ RateSet /\ gb.pc \in {"idle", "loop"}

GbRetry == IF gb.pc = "idle" THEN GETBUFPOS_RETRY ELSE gb.retry
GbTries == (IF gb.pc = "idle" THEN 0 ELSE gb.tries) + 1
GbGood0 == IF gb.pc = "idle" THEN aui.card_dma_lastgoodpos ELSE gb.good0

\* what the current index register may report: periods of the ring, and a
\* value that is none
IndexReads == { 0, 3, 7 }

\* what the position register may report, for a period of len units:
\* nothing left, one unit left, a whole period left, more than the whole ring
PicbReads(len) == { 0, 1, len, (4 * len) + 1 }

\* One pass of INTELICH_getbufpos, whatever the registers report. A read the
\* pass does not get to is not drawn.
GetBufPos ==
    /\ GbCanRead
    /\ \E index \in IndexReads :
       LET reads == env.SBEMU \/ index < ICH_DMABUF_PERIODS
       IN
       \E picb \in (IF reads THEN PicbReads(hw.bdl[0].len) ELSE {0}) :
       \E civ2 \in (IF reads /\ ~env.SBEMU
                    THEN {index, (index + 1) % ICH_DMABUF_PERIODS}
                    ELSE {index}) :
         GetBufPosPass(GbRetry, GbTries, GbGood0, index, picb, hw.lvi, civ2)

----------------------------------------------------------------------------
(* The DMA engine and INTELICH_getbufpos reading it *)

\* The engine while the start bit is set: it plays the period of the current
\* index, half a period a step, then goes to the next index of the ring of
\* ICH_DMABUF_PERIODS and fetches its descriptor.
HwStep(h) ==
    LET len == h.bdl[h.civ].len
        nxt == (h.civ + 1) % ICH_DMABUF_PERIODS
        \* the descriptor's interrupt-on-completion flag
        ioc == IF h.bdl[h.civ].ctl >= ICH_BD_IOC THEN {ICH_PO_SR_BCIS} ELSE {}
    IN  IF h.picb > len \div 2
        THEN [h EXCEPT !.picb = len \div 2]
        ELSE IF h.civ = h.lvi
        THEN \* the last valid buffer is done: the engine halts
             [h EXCEPT !.picb = 0,
                       !.sr = @ \cup ioc \cup {ICH_PO_SR_LVBCI, ICH_PO_SR_DCH}]
        ELSE [h EXCEPT !.civ = nxt, !.picb = h.bdl[nxt].len, !.sr = @ \cup ioc]

HwTick ==
    /\ ub = "none"
    /\ ICH_PO_CR_START \in hw.cr
    /\ hw.picb > 0
    /\ hw' = HwStep(hw)
    /\ gb' = [gb EXCEPT !.wrapped = @ \/ (hw'.civ < hw.civ),
                        !.inwrap = @ \/ (hw'.civ < hw.civ)]
    /\ UNCHANGED <<env, wt, hs, isr, g_counts, aui, card, heap, ub, last, att, ndetect>>

\* index=snd_intel_read_8(card,ICH_PO_CIV_REG): the pass begins
GbReadIndex ==
    /\ GbCanRead
    /\ gb' = [gb EXCEPT !.pc = "picb", !.retry = GbRetry, !.tries = GbTries,
                        !.good0 = GbGood0, !.index = hw.civ,
                        !.inwrap = FALSE]
    /\ last' = NoCall
    /\ UNCHANGED <<env, wt, hs, isr, g_counts, aui, card, heap, hw, ub, att, ndetect>>

\* the rest of the pass, on the registers as they are by now
GbReadPos ==
    /\ ub = "none"
    /\ gb.pc = "picb"
    /\ GetBufPosPass(gb.retry, gb.tries, gb.good0, gb.index,
                     hw.picb, hw.lvi, hw.civ)

----------------------------------------------------------------------------
(* INTELICH_IRQRoutine, and the host calls it may come between *)

\* a FIFO error while the engine plays
HwFifo ==
    /\ ub = "none"
    /\ ICH_PO_CR_START \in hw.cr
    /\ hw.picb > 0
    /\ ICH_PO_SR_FIFO \notin hw.sr
    /\ hw' = [hw EXCEPT !.sr = @ \cup {ICH_PO_SR_FIFO}]
    /\ UNCHANGED <<env, wt, hs, isr, g_counts, aui, card, heap, gb, ub, last, att, ndetect>>

\* the last valid index cannot fall behind
IrqLviCatchUp(lvi, civ) == (civ + ICH_DMABUF_PERIODS - 1) % ICH_DMABUF_PERIODS

\* a faulty variant: the index goes on past the end of the ring
IrqLviNoWrap(lvi, civ) == lvi + 1

\* the last valid index written for a buffer completion
IrqLviAdvance(lvi, civ) == (lvi + 1) % ICH_DMABUF_PERIODS

\* the last valid index written after an underrun, one short
IrqLviBeforeLast == ICH_DMABUF_PERIODS - 2

\* the last valid index written after an underrun
IrqLviLast == ICH_DMABUF_PERIODS - 1

\* an acknowledge that leaves the FIFO error out
IrqAckNoFifo(status) == status \cap {ICH_PO_SR_LVBCI, ICH_PO_SR_BCIS}

\* the value written back to the status register
IrqAck(status) == status \cap {ICH_PO_SR_LVBCI, ICH_PO_SR_BCIS, ICH_PO_SR_FIFO}

\* One invocation on card c with the registers h and the counters g: the
\* registers and counters at return, the status read, the register accesses
\* made and the return value.
INTELICH_IRQRoutine(c, h, g) ==
    LET status == h.sr
        lvbci == ICH_PO_SR_LVBCI \in status
        bcis == ICH_PO_SR_BCIS \in status
        fifo == ICH_PO_SR_FIFO \in status
        \* this kicks off the playback of the buffers (again); set last index
        h1 == IF lvbci
              THEN write_PO_LVI(
                       write_PO_CR(h, h.cr \cup {ICH_PO_CR_START, ICH_PO_CR_IOCE,
                                                 ICH_PO_CR_FEIE, ICH_PO_CR_LVBIE}),
                       IrqLviLast)
              ELSE h
        \* to keep playing in an endless loop
        h2 == IF bcis THEN write_PO_LVI(h1, IrqLviAdvance(h1.lvi, h1.civ)) ELSE h1
        \* acknowledge the interrupt we have seen
        ack == IrqAck(status)
        h3 == write_PO_SR(h2, ack)
        g1 == [g EXCEPT !.BUP_COUNT = IF lvbci THEN @ + 1 ELSE @,
                        !.IOC_COUNT = IF bcis THEN @ + 1 ELSE @,
                        !.FIFO_COUNT = IF fifo THEN @ + 1 ELSE @]
    IN  [ hw |-> h3, g_counts |-> g1, status |-> status, ack |-> ack,
          crw |-> lvbci,
          lviw |-> (IF lvbci THEN <<IrqLviLast>> ELSE <<>>)
                   \o (IF bcis THEN <<IrqLviAdvance(h1.lvi, h1.civ)>> ELSE <<>>),
          acc |-> <<(<<"r", ICH_PO_SR_REG(c)>>)>>
                  \o (IF lvbci
                      THEN << <<"r", ICH_PO_CR_REG>>, <<"w", ICH_PO_CR_REG>>,
                              <<"w", ICH_PO_LVI_REG>> >>
                      ELSE <<>>)
                  \o (IF bcis
                      THEN << <<"r", ICH_PO_LVI_REG>>, <<"w", ICH_PO_LVI_REG>> >>
                      ELSE <<>>)
                  \o << <<"w", ICH_PO_SR_REG(c)>> >>,
          ret |-> IF status # {} THEN 1 ELSE 0 ]

\* the handler runs from entry to return, whenever the interrupt line is
\* raised (by this card or by one that shares the line), also between two
\* register accesses of a host call
IrqRoutine ==
    /\ ub = "none"
    /\ env.SBEMU
    /\ HasCard
    /\ isr.n < MaxIrqs
    /\ \E r \in { INTELICH_IRQRoutine(card, hw, g_counts) } :
         /\ hw' = r.hw
         /\ g_counts' = r.g_counts
         /\ isr' = [ n |-> isr.n + 1, ran |-> TRUE, status |-> r.status,
                     lvi0 |-> hw.lvi, lvi1 |-> r.hw.lvi, civ1 |-> r.hw.civ,
                     cr1 |-> r.hw.cr, acc |-> r.acc, ack |-> r.ack,
                     lviw |-> r.lviw,
                     g0 |-> g_counts ]
         /\ hs' = IF hs.pc # "idle" /\ r.crw THEN [hs EXCEPT !.irqcr = TRUE] ELSE hs
    /\ UNCHANGED <<env, wt, aui, card, heap, gb, ub, last, att, ndetect>>

\* INTELICH_start in the SBEMU build, a register access a step:
\* snd_intel_read_8(card,ICH_PO_CR_REG)
StartRead ==
    /\ HostIdle
    /\ HasCard
    /\ env.SBEMU
    /\ hs' = [HsIdle EXCEPT !.pc = "start", !.cmd = hw.cr]
    /\ UNCHANGED <<env, wt, isr, g_counts, aui, card, heap, hw, gb, ub, last, att, ndetect>>

\* snd_intel_write_8(card,ICH_PO_CR_REG, ... | LVBIE | IOCE | START)
StartWrite ==
    /\ ub = "none"
    /\ hs.pc = "start"
    /\ hw' = write_PO_CR(hw, StartValue(hs.cmd))
    /\ hs' = HsIdle
    /\ last' = [NoCall EXCEPT !.op = "start", !.priv0 = aui.card_private_data,
                              !.cr0 = hs.cmd, !.lvi0 = hw.lvi, !.civ0 = hw.civ]
    /\ gb' = GbIdle
    /\ isr' = [NoIrq EXCEPT !.n = isr.n]
    /\ UNCHANGED <<env, wt, g_counts, aui, card, heap, ub, att, ndetect>>

\* INTELICH_stop, a register access a step: cmd=snd_intel_read_8(card,ICH_PO_CR_REG)
StopRead ==
    /\ HostIdle
    /\ HasCard
    /\ hs' = [HsIdle EXCEPT !.pc = "stop", !.cmd = hw.cr]
    /\ UNCHANGED <<env, wt, isr, g_counts, aui, card, heap, hw, gb, ub, last, att, ndetect>>

\* funcbit_disable(cmd,ICH_PO_CR_START); snd_intel_write_8(card,ICH_PO_CR_REG,cmd)
StopWrite ==
    /\ ub = "none"
    /\ hs.pc = "stop"
    /\ hw' = write_PO_CR(hw, StopValue(hs.cmd))
    /\ hs' = HsIdle
    /\ last' = [NoCall EXCEPT !.op = "stop", !.priv0 = aui.card_private_data,
                              !.cr0 = hs.cmd]
    /\ gb' = GbIdle
    /\ UNCHANGED <<env, wt, isr, g_counts, aui, card, heap, ub, att, ndetect>>

----------------------------------------------------------------------------
(* The bounded waits, one register read a step *)

\* the counted loops a function goes through, its callees' included, in
\* order. "ready": snd_intel_codec_ready waits for the codec ready bit;
\* "sema": snd_intel_codec_semaphore for the busy bit to clear; "read":
\* snd_intel_codec_read for the read completion bit to clear; "warm":
\* snd_intel_chip_init for the warm reset bit to clear; "dch":
\* snd_intel_prepare_playback for the DMA halted bit.
WaitLoops(call) ==
    CASE call = "snd_intel_codec_ready"     -> <<"ready">>
      [] call = "snd_intel_codec_semaphore" -> <<"ready", "sema">>
      [] call = "snd_intel_codec_write"     -> <<"ready", "sema">>
      [] call = "snd_intel_codec_read"      -> <<"ready", "sema", "read">>
      [] call = "snd_intel_chip_init"       -> <<"warm", "ready", "ready", "sema", "read">>
      [] call = "snd_intel_prepare_playback" ->
            <<"dch", "ready", "sema", "read", "ready", "sema", "ready", "sema">>
      [] call = "INTELICH_start"            -> <<"ready">>

WaitCalls ==
    { "snd_intel_codec_ready", "snd_intel_codec_semaphore", "snd_intel_codec_write",
      "snd_intel_codec_read", "snd_intel_chip_init", "snd_intel_prepare_playback",
      "INTELICH_start" }

\* a loop that counts one pass too many
WaitBudgetOneMore(loop) == ICH_DEFAULT_RETRY + 1

\* retry=ICH_DEFAULT_RETRY at the head of each loop
WaitBudget(loop) == ICH_DEFAULT_RETRY

\* a function with counted loops is entered
WaitCall ==
    /\ wt.pc = "idle"
    /\ \E call \in WaitCalls :
         wt' = [WtIdle EXCEPT !.pc = "poll", !.call = call, !.i = 1,
                              !.retry = WaitBudget(WaitLoops(call)[1]),
                              !.allout = TRUE]
    /\ UNCHANGED <<env, aui, card, heap, hw, gb, ub, last, att, ndetect, hs, isr, g_counts>>

\* a faulty variant: the dummy read on every return
SemaDummyReadAlways(timedout) == TRUE

\* snd_intel_codec_semaphore reads the codec port (inw) only past its loop,
\* which the return inside the loop never reaches
SemaDummyRead(timedout) == timedout

\* what follows the semaphore loop i of a call: the loop of
\* snd_intel_codec_read, the return of snd_intel_codec_semaphore called by
\* itself, or the outw of snd_intel_codec_write
AfterSema(call, i) ==
    IF i < Len(WaitLoops(call)) /\ WaitLoops(call)[i + 1] = "read" THEN "read"
    ELSE IF call = "snd_intel_codec_semaphore" THEN "return"
    ELSE "outw"

\* what leaving loop i of the call does besides: the readiness wait tells
\* nobody how it ended, the semaphore wait ends snd_intel_codec_semaphore
WaitDone(w, timedout) ==
    LET loop == WaitLoops(w.call)[w.i]
    IN  IF loop = "ready"
        THEN [w EXCEPT !.readyout = timedout]
        ELSE IF loop = "sema"
        THEN [w EXCEPT !.acq = @ + 1,
                       !.acqready = w.readyout,
                       !.acqall = (w.busy = ICH_DEFAULT_RETRY),
                       !.acqfirst = (w.polls = w.busy + 1),
                       !.acqdummy = SemaDummyRead(timedout),
                       !.outw = IF AfterSema(w.call, w.i) = "outw" THEN @ + 1 ELSE @]
        ELSE w

\* the loop is left: the next loop of the function begins, or it returns
WaitLeave(w, timedout) ==
    LET loops == WaitLoops(w.call)
        out == w.allout /\ timedout
        d == WaitDone(w, timedout)
    IN  IF w.i < Len(loops)
        THEN [d EXCEPT !.i = w.i + 1, !.retry = WaitBudget(loops[w.i + 1]),
                       !.polls = 0, !.busy = 0, !.allout = out]
        ELSE [WtIdle EXCEPT !.done = w.call, !.allout = out,
                            !.readyout = d.readyout, !.acq = d.acq,
                            !.acqready = d.acqready, !.acqall = d.acqall,
                            !.acqfirst = d.acqfirst, !.acqdummy = d.acqdummy,
                            !.outw = d.outw]

\* do{ if(the bit is as wanted) break; pds_delay_10us(..); }while(--retry);
\* one pass: the register is read and the hardware answers as it likes
WaitPoll ==
    /\ wt.pc = "poll"
    /\ \E bit \in BOOLEAN :
         LET w == [wt EXCEPT !.polls = @ + 1,
                             !.busy = IF bit THEN @ ELSE @ + 1]
         IN  IF bit
             THEN wt' = WaitLeave(w, FALSE)
             ELSE IF w.retry - 1 = 0
             THEN wt' = WaitLeave(w, TRUE)
             ELSE wt' = [w EXCEPT !.retry = @ - 1]
    /\ UNCHANGED <<env, aui, card, heap, hw, gb, ub, last, att, ndetect, hs, isr, g_counts>>

\* snd_intel_measure_ac97_clock reaches its loop: starttime=pds_gettimeu()
ClockCall ==
    /\ wt.pc = "idle"
    /\ wt' = [WtIdle EXCEPT !.pc = "clock", !.call = "snd_intel_measure_ac97_clock"]
    /\ UNCHANGED <<env, aui, card, heap, hw, gb, ub, last, att, ndetect, hs, isr, g_counts>>

\* time goes on while the loop runs (not followed beyond the first step
\* past one second)
ClockTick ==
    /\ wt.pc = "clock"
    /\ wt.elapsed <= 1000000
    /\ wt' = [wt EXCEPT !.elapsed = @ + ClockStep]
    /\ UNCHANGED <<env, aui, card, heap, hw, gb, ub, last, att, ndetect, hs, isr, g_counts>>

\* do{ if(CIV>=3) if(CIV>=3) break; }while(pds_gettimeu()<=(starttime+1000000));
\* one pass: the current index has reached the last period or not
ClockPoll ==
    /\ wt.pc = "clock"
    /\ \E reached \in BOOLEAN :
         LET w == [wt EXCEPT !.polls = IF @ < 2 THEN @ + 1 ELSE @]
         IN  IF reached
             THEN wt' = [WtIdle EXCEPT !.done = w.call, !.elapsed = w.elapsed,
                                       !.checked = w.checked]
             ELSE IF w.elapsed <= 1000000
             THEN wt' = [w EXCEPT !.checked = w.elapsed]
             ELSE wt' = [WtIdle EXCEPT !.done = w.call, !.elapsed = w.elapsed,
                                       !.checked = w.elapsed, !.allout = TRUE]
    /\ UNCHANGED <<env, aui, card, heap, hw, gb, ub, last, att, ndetect, hs, isr, g_counts>>

----------------------------------------------------------------------------
(* Specifications *)

\* set-up: one detection, then rates, start and stop, data, close
Next == DetectCard \/ SetRate \/ Start \/ Stop \/ WriteData \/ Close

Spec == Init /\ [][Next]_vars

\* the life of the handle: detections on any machine with any allocator,
\* close, start and stop in any order
NextLife == Detect \/ Close \/ Start \/ Stop

SpecLife == Init /\ [][NextLife]_vars

\* position queries, whatever the registers report
NextPos == DetectCard \/ SetRatePlay \/ Start \/ Stop \/ GetBufPos

InitPos == Init /\ hw.glob_cnt = {}

SpecPos == InitPos /\ [][NextPos]_vars

\* position queries of a running engine, in the build that starts it
InitRing ==
    /\ Init
    /\ env.SBEMU
    /\ env.bufsize = 16384
    /\ pcibios_search_devices(env.pci[1], env.pci[2]) # {}
    /\ FoundType(pcibios_search_devices(env.pci[1], env.pci[2]))
          \in {DEVICE_INTEL, DEVICE_SIS}
    /\ hw.glob_cnt = {}

NextRing ==
    DetectCard \/ SetRatePlay \/ Start \/ Stop \/ HwTick \/ GbReadIndex \/ GbReadPos

SpecRing == InitRing /\ [][NextRing]_vars

\* The interrupt handler, the engine and the host's start and stop in the
\* SBEMU build
NextIrq ==
    \/ DetectCard \/ SetRatePlay
    \/ StartRead \/ StartWrite \/ StopRead \/ StopWrite
    \/ HwTick \/ HwFifo \/ IrqRoutine

InitIrq == InitRing /\ env.pci = <<4153, 28690>>

SpecIrq == InitIrq /\ [][NextIrq]_vars

\* The bounded waits on one machine. The processor goes on executing the
\* loop it is in, and the clock goes on while the clock test waits.
InitWait ==
    /\ Init
    /\ env = [SBEMU |-> TRUE, bufsize |-> 16384, pci |-> <<4153, 28690>>]
    /\ hw.glob_cnt = {}

NextWait == WaitCall \/ WaitPoll \/ ClockCall \/ ClockTick \/ ClockPoll

SpecWait ==
    /\ InitWait
    /\ [][NextWait]_vars
    /\ WF_vars(WaitPoll)
    /\ WF_vars(ClockPoll)
    /\ WF_vars(ClockTick)

\* Detection and a playback session on every card of the table and on cards
\* it does not list
InitResolve ==
    /\ InitOn(TableDevices \cup UnknownDevices)
    /\ env.bufsize = 16384
    /\ hw.glob_cnt = {}

NextResolve == DetectCard \/ SetRatePlay \/ Start \/ Stop \/ Close

SpecResolve == InitResolve /\ [][NextResolve]_vars

\* INTELICH_setrate and snd_intel_prepare_playback as functions: every
\* request on every detected card, with the variable rate flag clear or set
NextRate == DetectCard \/ SetRateVra

InitRate == Init /\ hw.glob_cnt = {}

SpecRate == InitRate /\ [][NextRate]_vars

----------------------------------------------------------------------------
(* Properties of INTELICH_getbufpos *)

\* C1: every value INTELICH_getbufpos returns is, as an unsigned number,
\* strictly below the declared DMA buffer size aui.card_dmasize, whatever the
\* current index and position registers reported.
C1_PositionBelowDmaSize ==
    last.op = "getbufpos" => U32Less(last.ret, aui.card_dmasize)

\* a call that accepted a position in the last bytes of the buffer
C1_Witness ==
    /\ last.op = "getbufpos"
    /\ last.accepted
    /\ last.tries > 1
    /\ (aui.card_dmasize - last.ret) \in 1..4

\* C2: while the engine goes round the ring, a position returned after
\* another one is not below it, unless the engine has gone from the last
\* period to the first in between.
C2_MonotoneBetweenWraps ==
    (last.op = "getbufpos" /\ last.cont /\ ~last.wrapped)
        => ~U32Less(last.ret, last.good0)

\* C3: INTELICH_getbufpos makes at most 3 passes, and a call none of whose
\* passes gave a position inside the buffer returns the last good position
\* of an earlier call and leaves it stored as it was.
C3_ThreeTriesThenLastGood ==
    /\ gb.tries <= 3
    /\ (last.op = "getbufpos") =>
          /\ last.tries <= 3
          /\ (~last.accepted) =>
                /\ last.tries = 3
                /\ last.ret = last.good0
                /\ aui.card_dma_lastgoodpos = last.good0

\* three passes rejected, and the position of an earlier call returned
C3_Witness ==
    /\ last.op = "getbufpos"
    /\ ~last.accepted
    /\ last.tries = 3
    /\ last.good0 > 0
    /\ last.ret = last.good0

----------------------------------------------------------------------------
(* Properties of the set-up *)

\* the address the bus master is given for byte off of the PCM buffer, which
\* follows the descriptor table in the card's allocation
PcmPhysical(off) == dm_physicalptr(card.dm) + ICH_DMABUF_ALIGN + off

\* C5: once the rate is set, the 32-slot descriptor list has exactly 4
\* populated slots and 28 zeroed ones: slot i of 0..3 holds the physical
\* address of PCM buffer base + i * period_size_bytes and a length, each
\* slice following the one before; every slot 4..31 holds address 0 and
\* length 0.
C5_FourPeriodsRestZero ==
    RateSet =>
        /\ card.period_size_bytes = aui.card_dmasize \div 4
        /\ \A i \in 0..3 :
              /\ hw.bdl[i].addr = PcmPhysical(i * card.period_size_bytes)
              /\ hw.bdl[i].len > 0
        /\ \A i \in 0..2 :
              hw.bdl[i + 1].addr = hw.bdl[i].addr + card.period_size_bytes
        /\ \A i \in 4..31 :
              hw.bdl[i].addr = 0 /\ hw.bdl[i].len = 0 /\ hw.bdl[i].ctl = 0
        /\ hw.bdbar = dm_physicalptr(card.dm)

\* a 16384-byte buffer: periods of 4096 bytes, slot 3 at base + 12288
C5_Witness ==
    /\ last.op = "setrate"
    /\ aui.card_dmasize = 16384
    /\ card.period_size_bytes = 4096
    /\ hw.bdl[0].addr = PcmPhysical(0)
    /\ hw.bdl[3].addr = PcmPhysical(12288)
    /\ hw.bdl[4].addr = 0
    /\ hw.bdl[31].len = 0

\* x within [lo, hi], all rationals
Within(x, lo, hi) == ~RatLess(x, lo) /\ ~RatLess(hi, x)

\* C6: the clock corrector is 0 or lies in [0.60, 0.99) or (1.01, 1.5], and
\* a measurement whose exact ratio of nominal to measured byte rate lies in
\* [0.99, 1.01], ends included, or outside [0.60, 1.5] is stored as 0.
C6_CorrectorRange ==
    LET x == card.ac97_clock_corrector
    IN  /\ \/ x = <<0, 1>>
           \/ ~RatLess(x, <<60, 100>>) /\ RatLess(x, <<99, 100>>)
           \/ RatLess(<<101, 100>>, x) /\ ~RatLess(<<15, 10>>, x)
        /\ (/\ last.op = "setrate"
            /\ last.measured
            /\ \/ Within(last.ratio, <<99, 100>>, <<101, 100>>)
               \/ ~Within(last.ratio, <<60, 100>>, <<15, 10>>))
              => x = <<0, 1>>

\* a measured ratio of exactly 0.99 (63360 us for the 12288 test bytes of a
\* 16384-byte buffer): the float field holds a value above 0.99, and the
\* corrector is stored as 0
C6_Witness ==
    /\ last.op = "setrate"
    /\ last.measured
    /\ last.ratio = <<99, 100>>
    /\ card.ac97_clock_corrector = <<0, 1>>

----------------------------------------------------------------------------
(* Properties of the life of the handle *)

\* some card of the handle has been closed
ClosedBefore == \E i \in 1..MaxDetects : heap[i].cardFrees > 0

\* nothing has been released twice
NoDoubleFree ==
    \A i \in 1..MaxDetects :
        heap[i].cardFrees <= 1 /\ heap[i].pciFrees <= 1 /\ heap[i].dmFrees <= 1

\* C7: INTELICH_stop and INTELICH_close on a handle that has been closed do
\* not fault: no null card pointer is read through, and nothing is released
\* a second time.
C7_StopCloseOnClosedHandle ==
    (last.op \in {"stop", "close"} /\ last.priv0 = NULL /\ ClosedBefore)
        => (ub = "none" /\ NoDoubleFree)

\* C8 as stated: every DMA allocation made by INTELICH_adetect is released
\* at most once and only by INTELICH_close, and none is left unreleased
\* once INTELICH_close has run.
C8_DmaReleasedOnceByClose ==
    \A i \in 1..MaxDetects :
        (heap[i].dm = 1) =>
            /\ heap[i].dmFrees <= 1
            /\ (heap[i].dmFrees = 1) => (heap[i].dmFreedBy = "close")
            /\ (last.op = "close") => (heap[i].dmFrees = 1)

\* C8, amended: every DMA allocation made by INTELICH_adetect is released
\* at most once and only by INTELICH_close; once INTELICH_close has run it
\* has been released exactly once, unless INTELICH_adetect was called again
\* while its card was still in the handle: that allocation is never
\* released.
C8_DmaReleasedOnceUnlessReplaced ==
    \A i \in 1..MaxDetects :
        (heap[i].dm = 1) =>
            /\ heap[i].dmFrees <= 1
            /\ (heap[i].dmFrees = 1) => (heap[i].dmFreedBy = "close")
            /\ (last.op = "close" /\ ~heap[i].orphan) => (heap[i].dmFrees = 1)
            /\ heap[i].orphan => (heap[i].dmFrees = 0)

\* two cards, each detected on an empty handle and closed: both allocations
\* released once
C8_Witness ==
    /\ last.op = "close"
    /\ heap[1].dm = 1 /\ heap[1].dmFrees = 1 /\ heap[1].dmFreedBy = "close"
    /\ heap[2].dm = 1 /\ heap[2].dmFrees = 1 /\ heap[2].dmFreedBy = "close"

\* what a failed INTELICH_adetect leaves: 0 returned, the card and the PCI
\* record of the call released once, no DMA memory, the handle empty
DetectFailedClean ==
    /\ last.ret = 0
    /\ aui.card_private_data = NULL
    /\ heap[last.id].card = 1 /\ heap[last.id].cardFrees = 1
    /\ heap[last.id].pci = 1 /\ heap[last.id].pciFrees = 1
    /\ heap[last.id].dm = 0 /\ heap[last.id].dmFrees = 0

\* C9 as stated: when no device of the table is found, or the bus master or
\* the codec base address register reads as zero, INTELICH_adetect fails
\* clean.
C9_ZeroBarFailsDetect ==
    (/\ last.op = "adetect"
     /\ \/ last.search = "notfound"
        \/ last.bm1 = 0
        \/ last.codec1 = 0)
        => DetectFailedClean

\* C9, amended: when no device of the table is found, or the bus master or
\* the codec base address is zero after the SBEMU build has assigned an
\* address to a register that read zero and read it again (in the polling
\* build: after the one read), INTELICH_adetect fails clean.
C9_NoBaseAddressFailsDetect ==
    (/\ last.op = "adetect"
     /\ \/ last.search = "notfound"
        \/ last.bm = 0
        \/ last.codec = 0)
        => DetectFailedClean

\* the SBEMU build: the bus master address is there, the codec register
\* reads zero and does not keep the address assigned; the call fails clean
C9_Witness ==
    /\ last.op = "adetect"
    /\ env.SBEMU
    /\ last.bm # 0
    /\ last.codec1 = 0
    /\ last.codec = 0
    /\ DetectFailedClean

\* C10: when the DMA allocator gives no memory, INTELICH_adetect fails like
\* a failed detection: it returns 0 and cleans up, derives no descriptor or
\* buffer pointer from the missing allocation and does not set up the chip.
C10_NoDmaMemoryFailsDetect ==
    (last.op = "adetect" /\ last.dmalloc = "fail")
        => /\ DetectFailedClean
           /\ ~last.derived
           /\ ~last.chipinit
           /\ ub = "none"

----------------------------------------------------------------------------
(* Sample width, start bit, clock test window *)

\* C13: after INTELICH_setrate has prepared the channel, the sample width is
\* 32 bits, with the 20-bit bit set in the global control register, exactly
\* when the card is an ICH4, more than 16 bits were asked for and the
\* capability bits read 16-/20-bit; in every other case the width is 16
\* bits (and outside the SiS family the 20-bit bit is clear); for every
\* family the family's multichannel mask is clear.
C13_WideOnlyOnIch4 ==
    (last.op = "setrate")
        => LET wide == /\ card.device_type = DEVICE_INTEL_ICH4
                       /\ aui.bits_set > 16
                       /\ last.cap = Bits(ICH_SAMPLE_16_20)
           IN  /\ aui.bits_card = (IF wide THEN 32 ELSE 16)
               /\ wide => Bits(ICH_PCM_20BIT) \subseteq hw.glob_cnt
               /\ (~wide /\ card.device_type # DEVICE_SIS)
                      => Bits(ICH_PCM_20BIT) \cap hw.glob_cnt = {}
               /\ IF card.device_type = DEVICE_SIS
                  THEN Bits(ICH_SIS_PCM_246_MASK) \cap hw.glob_cnt = {}
                  ELSE Bits(ICH_PCM_246_MASK) \cap hw.glob_cnt = {}

\* an ICH4 that reports 16-/20-bit samples, asked for 24 bits, plays 32-bit
\* samples with the 20-bit bit set
C13_Witness ==
    /\ last.op = "setrate"
    /\ card.device_type = DEVICE_INTEL_ICH4
    /\ aui.bits_set = 24
    /\ last.cap = Bits(ICH_SAMPLE_16_20)
    /\ aui.bits_card = 32
    /\ Bits(ICH_PCM_20BIT) \subseteq hw.glob_cnt

\* C19: after INTELICH_start has returned, the control register is what it
\* was before the call with the start bit set, and in the SBEMU build with
\* the last-valid-buffer and completion interrupt enable bits set as well.
C19_StartSetsStartBit ==
    (last.op = "start")
        => hw.cr = last.cr0 \cup (IF env.SBEMU
                                  THEN {ICH_PO_CR_START, ICH_PO_CR_LVBIE, ICH_PO_CR_IOCE}
                                  ELSE {ICH_PO_CR_START})

\* C20: in the SBEMU build, between the start and the stop of the clock
\* test the three interrupt enable bits of the control register are clear,
\* and after the test the register holds what it held before it.
C20_EnablesClearInTestWindow ==
    (last.op = "setrate" /\ last.measured /\ env.SBEMU)
        => /\ last.crwin \cap CrIntEnables = {}
           /\ last.crpost = last.crpre

----------------------------------------------------------------------------
(* The device table and the register offsets of a family *)

\* the family the table's comments and names give a vendor's devices: SiS
\* has the 7012, the NVIDIA ids are NForce, the 82801DB (ICH4) and later
\* Intel ids are ICH4, the earlier Intel ids and the AMD ones are standard
DocumentedFamily(pair) ==
    IF pair[1] = 4153 THEN DEVICE_SIS
    ELSE IF pair[1] = 4318 THEN DEVICE_NFORCE
    ELSE IF pair[1] = 32902 /\ pair[2] \in {9413, 9429, 9638, 9838, 10206, 9880}
    THEN DEVICE_INTEL_ICH4
    ELSE DEVICE_INTEL

\* C14: INTELICH_adetect on a card whose pair is in the table finds exactly
\* one entry and gives the card the documented family; the status register
\* is then at offset 0x18 and the position register at 0x16 for the SiS 7012
\* (1039:7012), at 0x16 and 0x18 for every other card, two distinct offsets;
\* on a card whose pair is not in the table the search finds nothing and the
\* call fails clean.
C14_TableResolvesFamily ==
    (last.op = "adetect")
        => IF env.pci \in TableDevices
           THEN /\ Cardinality(pcibios_search_devices(env.pci[1], env.pci[2])) = 1
                /\ last.ret = 1
                /\ card.device_type = DocumentedFamily(env.pci)
                /\ ICH_PO_SR_REG(card) = (IF env.pci = <<4153, 28690>> THEN 24 ELSE 22)
                /\ ICH_PO_PICB_REG(card) = (IF env.pci = <<4153, 28690>> THEN 22 ELSE 24)
                /\ ICH_PO_SR_REG(card) # ICH_PO_PICB_REG(card)
           ELSE /\ last.search = "notfound"
                /\ DetectFailedClean

\* the SiS 7012 detected, with its two offsets swapped
C14_Witness ==
    /\ last.op = "adetect"
    /\ last.ret = 1
    /\ env.pci = <<4153, 28690>>
    /\ card.device_type = DEVICE_SIS
    /\ ICH_PO_SR_REG(card) = 24
    /\ ICH_PO_PICB_REG(card) = 22

----------------------------------------------------------------------------
(* Bounded waits *)

\* C11: whatever the hardware answers, no counted loop reads its register
\* more than ICH_DEFAULT_RETRY (1000) times, the clock test's loop goes on
\* only while the time its condition last saw is within one second, and
\* every function that has entered its waits returns.
C11_BoundedWaitsReturn ==
    /\ [](wt.pc = "poll" => wt.polls < ICH_DEFAULT_RETRY)
    /\ [](wt.polls <= ICH_DEFAULT_RETRY)
    /\ [](wt.pc = "clock" => wt.checked <= 1000000)
    /\ (wt.pc # "idle") ~> (wt.pc = "idle")

\* snd_intel_prepare_playback has returned although each of its eight loops
\* ran out
C11_Witness ==
    /\ wt.pc = "idle"
    /\ wt.done = "snd_intel_prepare_playback"
    /\ wt.allout

----------------------------------------------------------------------------
(* The interrupt handler *)

\* C12: while INTELICH_start or INTELICH_stop is between its read and its
\* write of the control register, the interrupt handler does not write the
\* register: the value the host has read is still what the register holds,
\* so the host's write neither loses nor overwrites a write of the handler.
C12_HostSequencesNotInterleaved ==
    (hs.pc # "idle") => (~hs.irqcr /\ hs.cmd = hw.cr)

\* playback started on a freshly prepared ring, and still started
StartedFresh ==
    /\ last.op = "start"
    /\ last.lvi0 = ICH_DMABUF_PERIODS - 1
    /\ last.civ0 = 0
    /\ ICH_PO_CR_START \in hw.cr

\* C15: once playback has been started on a prepared ring (last valid index
\* 3, current index 0), at every return of the interrupt handler the last
\* valid index is (current index + 3) mod 4, and the handler has not met a
\* last-valid-buffer completion.
C15_LviTrailsByOne ==
    (StartedFresh /\ isr.ran)
        => /\ isr.lvi1 = (isr.civ1 + 3) % ICH_DMABUF_PERIODS
           /\ ICH_PO_SR_LVBCI \notin isr.status

\* the bits the handler sets in the control register after an underrun
IrqRestartBits ==
    {ICH_PO_CR_START, ICH_PO_CR_IOCE, ICH_PO_CR_FEIE, ICH_PO_CR_LVBIE}

\* C16 as claimed: a handler that read the last-valid-buffer completion bit
\* returns with the underrun counter one up, the four bits set in the
\* control register and last valid index 3, whatever else it read.
C16_UnderrunSetsLviLast ==
    (isr.ran /\ ICH_PO_SR_LVBCI \in isr.status)
        => /\ g_counts.BUP_COUNT = isr.g0.BUP_COUNT + 1
           /\ IrqRestartBits \subseteq isr.cr1
           /\ isr.lvi1 = ICH_DMABUF_PERIODS - 1

\* C16: a handler that read the last-valid-buffer completion bit returns
\* with the underrun counter one up and the four bits set in the control
\* register; the last valid index is 3 when the buffer completion bit was
\* not set in the same read, and 0 (3 advanced by one slot) when it was.
C16_UnderrunSetsLviLastThenAdvances ==
    (isr.ran /\ ICH_PO_SR_LVBCI \in isr.status)
        => /\ g_counts.BUP_COUNT = isr.g0.BUP_COUNT + 1
           /\ IrqRestartBits \subseteq isr.cr1
           /\ isr.lvi1 = (IF ICH_PO_SR_BCIS \in isr.status
                          THEN 0 ELSE ICH_DMABUF_PERIODS - 1)

\* the handler has served an underrun: the engine had played the last valid
\* buffer, whose descriptor asks for a completion interrupt too
C16_Witness ==
    /\ isr.ran
    /\ ICH_PO_SR_LVBCI \in isr.status
    /\ ICH_PO_SR_BCIS \in isr.status
    /\ g_counts.BUP_COUNT = 1
    /\ isr.lvi1 = 0

\* C17 as claimed: a handler that read the buffer completion bit returns
\* with the completion counter one up and the last valid index one slot
\* past its value at entry, modulo 4, whatever else it read.
C17_CompletionAdvancesLvi ==
    (isr.ran /\ ICH_PO_SR_BCIS \in isr.status)
        => /\ g_counts.IOC_COUNT = isr.g0.IOC_COUNT + 1
           /\ isr.lvi1 = (isr.lvi0 + 1) % ICH_DMABUF_PERIODS

\* C17: a handler that read the buffer completion bit returns with the
\* completion counter one up; the last valid index is one slot past its
\* value at entry, modulo 4, when the last-valid-buffer completion bit was
\* not set in the same read, and 0 (one slot past 3) when it was.
C17_CompletionAdvancesLviFromLast ==
    (isr.ran /\ ICH_PO_SR_BCIS \in isr.status)
        => /\ g_counts.IOC_COUNT = isr.g0.IOC_COUNT + 1
           /\ isr.lvi1 = (IF ICH_PO_SR_LVBCI \in isr.status
                          THEN 0
                          ELSE (isr.lvi0 + 1) % ICH_DMABUF_PERIODS)

\* a completion served alone, the index going from 3 round to 0
C17_Witness ==
    /\ isr.ran
    /\ isr.status = {ICH_PO_SR_BCIS}
    /\ isr.lvi0 = ICH_DMABUF_PERIODS - 1
    /\ isr.lvi1 = 0
    /\ g_counts.IOC_COUNT = isr.g0.IOC_COUNT + 1

\* the handler's accesses: the status register read first and only once,
\* and written last
IrqAccessOrder ==
    /\ Len(isr.acc) >= 2
    /\ isr.acc[1] = <<"r", ICH_PO_SR_REG(card)>>
    /\ isr.acc[Len(isr.acc)] = <<"w", ICH_PO_SR_REG(card)>>
    /\ Cardinality({ i \in 1..Len(isr.acc) : isr.acc[i] = <<"r", ICH_PO_SR_REG(card)>> }) = 1
    /\ Cardinality({ i \in 1..Len(isr.acc) : isr.acc[i] = <<"w", ICH_PO_SR_REG(card)>> }) = 1

\* C18 as claimed: the handler reads the status register once, and its last
\* register access writes back to it every bit that was set in the read.
C18_AcksEveryBitRead ==
    isr.ran => (IrqAccessOrder /\ isr.ack = isr.status)

\* C18: the handler reads the status register once, and its last register
\* access writes back to it every interrupt bit (last-valid-buffer
\* completion, buffer completion, FIFO error) that was set in the read, and
\* no other bit: the read-only halted bit is not written back.
C18_AcksEveryInterruptBitRead ==
    isr.ran
        => /\ IrqAccessOrder
           /\ isr.ack = isr.status
                          \cap {ICH_PO_SR_LVBCI, ICH_PO_SR_BCIS, ICH_PO_SR_FIFO}

\* a FIFO error and a completion acknowledged in one write, after the
\* recovery action
C18_Witness ==
    /\ isr.ran
    /\ isr.status = {ICH_PO_SR_BCIS, ICH_PO_SR_FIFO}
    /\ isr.ack = {ICH_PO_SR_BCIS, ICH_PO_SR_FIFO}
    /\ Len(isr.acc) = 4

----------------------------------------------------------------------------
(* INTELICH_setrate: the clock test and the rate *)

\* what every INTELICH_setrate call leaves behind as to the clock test
ClockTestedOnce ==
    (last.op = "setrate")
        => /\ last.measured
                <=> (card.device_type = DEVICE_INTEL /\ last.det0 = 0)
           /\ last.measured => card.ac97_clock_detected = 1
           /\ last.det0 = 1 => card.ac97_clock_detected = 1
           /\ last.freqm = last.freq0

\* C21: over any sequence of INTELICH_setrate calls on a card the clock
\* test runs only on a standard-family card whose calibration-done flag is
\* clear, and sets the flag whatever it measured; the flag once set stays
\* set while the card is in the handle, so the test runs at most once; a
\* card of another family keeps the flag clear and the corrector 0; and
\* aui->freq_card is after the test what the caller asked for.
C21_ClockTestAtMostOnce ==
    /\ [](ClockTestedOnce)
    /\ [](card.device_type # DEVICE_INTEL
            => /\ card.ac97_clock_detected = 0
               /\ card.ac97_clock_corrector = <<0, 1>>)
    /\ [][(card.ac97_clock_detected = 1 /\ aui'.card_private_data # NULL)
            => card'.ac97_clock_detected = 1]_vars

\* a second INTELICH_setrate on a standard-family card whose first test ran
\* out of time: no test, the flag set, no corrector
C21_Witness ==
    /\ last.op = "setrate"
    /\ card.device_type = DEVICE_INTEL
    /\ last.det0 = 1
    /\ ~last.measured
    /\ card.ac97_clock_detected = 1
    /\ card.ac97_clock_corrector = <<0, 1>>

----------------------------------------------------------------------------
(* INTELICH_getbufpos: a count of zero or above the period size *)

\* C22: a pass of INTELICH_getbufpos that reads a remaining count of zero or
\* above the period size clears the PCM buffer and sets the underrun flag
\* when the last valid index equals the index read, leaves the flag as it
\* was when it does not, and in both cases goes round again using up one
\* retry: no position computed from such a count is accepted.
C22_BadCountNeverUsed ==
    att.bad =>
        /\ ~att.accepted
        /\ att.retry1 = att.retry0 - 1
        /\ (att.lvi = att.index) => (att.cleared /\ att.under1)
        /\ (att.lvi # att.index) => (~att.cleared /\ att.under1 = att.under0)

----------------------------------------------------------------------------
(* snd_intel_prepare_playback: the SPDIF rate *)

----------------------------------------------------------------------------
(* snd_intel_prepare_playback: the unit of the descriptor lengths *)

\* the length field of a descriptor may hold 0xFFFE at most
BDL_MAX_LEN == 65534

\* C24: once the rate is set with a period size within 0xFFFE, the length
\* field (the low 16 bits of the second word) of each of the 4 used
\* descriptors is period_size_bytes on the SiS 7012 and period_size_bytes
\* divided by the bytes of a sample, 2 for 16-bit and 4 for 32-bit samples,
\* on every other family.
C24_LengthInBytesOrSamples ==
    (RateSet /\ card.period_size_bytes <= BDL_MAX_LEN) =>
        /\ aui.bits_card \in {16, 32}
        /\ \A i \in 0..(ICH_DMABUF_PERIODS - 1) :
              hw.bdl[i].len =
                  IF card.device_type = DEVICE_SIS
                  THEN card.period_size_bytes
                  ELSE card.period_size_bytes \div (IF aui.bits_card = 32 THEN 4 ELSE 2)

\* an ICH4 set to 32-bit samples: 8192-byte periods of 2048 samples
C24_Witness ==
    /\ last.op = "setrate"
    /\ card.device_type = DEVICE_INTEL_ICH4
    /\ aui.bits_card = 32
    /\ card.period_size_bytes = 8192
    /\ hw.bdl[3].len = 2048

----------------------------------------------------------------------------
(* INTELICH_setrate: the card frequency and the period size *)

\* C25: INTELICH_setrate keeps the requested frequency within 8000..48000
\* when the variable rate flag of the card is set (8000 for a request below,
\* 48000 for one above, the request itself inside) and takes 48000 for every
\* request when the flag is clear; the period size it then derives is the
\* DMA buffer size divided by 4.
C25_RateClampedOrForced ==
    (last.op = "setrate") =>
        /\ (last.vra0 = 0) => last.freqsel = 48000
        /\ (last.vra0 # 0 /\ last.freq0 < 8000) => last.freqsel = 8000
        /\ (last.vra0 # 0 /\ last.freq0 > 48000) => last.freqsel = 48000
        /\ (last.vra0 # 0 /\ last.freq0 \in 8000..48000) => last.freqsel = last.freq0
        /\ card.period_size_bytes = aui.card_dmasize \div 4

\* a request of 4000 with the flag set has become 8000
C25_Witness ==
    /\ last.op = "setrate"
    /\ last.vra0 = 1
    /\ last.freq0 = 4000
    /\ last.freqsel = 8000
    /\ card.period_size_bytes = 4096

----------------------------------------------------------------------------
(* snd_intel_codec_semaphore *)

\* C26: snd_intel_codec_semaphore polls the semaphore after the readiness
\* wait however that wait ended; it makes the dummy read of the codec port if
\* and only if the busy bit was set on all ICH_DEFAULT_RETRY (1000) polls,
\* returns without it on the first poll that sees the bit clear, and returns
\* in both cases, so that snd_intel_codec_write always makes its port write.
C26_AcquireAlwaysReturns ==
    /\ [](wt.acq > 0 =>
            /\ wt.acqdummy <=> wt.acqall
            /\ wt.acqdummy <=> ~wt.acqfirst)
    /\ [](wt.done = "snd_intel_codec_semaphore" => (wt.acq = 1 /\ wt.outw = 0))
    /\ [](wt.done = "snd_intel_codec_write" => (wt.acq = 1 /\ wt.outw = 1))
    /\ [](wt.done = "snd_intel_prepare_playback" => (wt.acq = 3 /\ wt.outw = 2))
    /\ [][(wt.pc = "poll" /\ WaitLoops(wt.call)[wt.i] = "ready" /\ wt' # wt)
            => (wt'.pc = "poll" /\ wt'.call = wt.call
                  /\ WaitLoops(wt.call)[wt'.i] \in {"ready", "sema"})
               \/ wt.call \in {"snd_intel_codec_ready", "INTELICH_start"}]_vars
    /\ (wt.pc = "poll" /\ wt.call = "snd_intel_codec_write")
            ~> (wt.done = "snd_intel_codec_write" /\ wt.outw = 1)

\* snd_intel_codec_write has returned after its port write although the
\* codec never became ready and the semaphore stayed busy for 1000 polls,
\* with the dummy read made
C26_Witness ==
    /\ wt.done = "snd_intel_codec_write"
    /\ wt.acqready
    /\ wt.acqall
    /\ wt.acqdummy
    /\ ~wt.acqfirst
    /\ wt.outw = 1

----------------------------------------------------------------------------
(* INTELICH_stop and the interrupt handler *)

\* C27: in the SBEMU build, once INTELICH_stop has returned the start bit of
\* the control register is clear and stays clear until INTELICH_start is
\* called again, however the interrupt handler's runs fall: the handler
\* does not start again what the host has stopped.
C27_StoppedStaysStopped ==
    (env.SBEMU /\ last.op = "stop" /\ hs.pc # "start")
        => ICH_PO_CR_START \notin hw.cr

----------------------------------------------------------------------------
(* The last valid index register *)

\* C28: once the rate has been set, every value the driver writes to the
\* last valid index register, in snd_intel_prepare_playback and in the
\* interrupt handler whatever status it reads, is one of 0..3: it names one
\* of the 4 populated descriptors, never one of the 28 zeroed ones.
C28_LviWritesInRing ==
    RateSet =>
        /\ hw.lvi \in 0..(ICH_DMABUF_PERIODS - 1)
        /\ hw.bdl[hw.lvi].len > 0
        /\ (last.op = "setrate") => hw.lvi = ICH_DMABUF_PERIODS - 1
        /\ \A k \in DOMAIN isr.lviw :
              /\ isr.lviw[k] \in 0..(ICH_DMABUF_PERIODS - 1)
              /\ hw.bdl[isr.lviw[k]].len > 0

\* a handler run that read both completions wrote 3 and then 0
C28_Witness ==
    /\ RateSet
    /\ isr.ran
    /\ {ICH_PO_SR_LVBCI, ICH_PO_SR_BCIS} \subseteq isr.status
    /\ isr.lviw = <<3, 0>>
    /\ hw.lvi = 0

----------------------------------------------------------------------------
(* The variable rate flag *)

\* C29: the variable rate flag of the card structure is 0 in every state
\* (the structure is zeroed when allocated and nothing sets the flag), so
\* INTELICH_setrate takes 48000 for every request before any correction by
\* the clock corrector, and snd_intel_prepare_playback never writes the DAC
\* rate multiplied by the corrector.
C29_VraNeverSet ==
    /\ card.vra = 0
    /\ hw.dacby # "times"
    /\ (last.op = "setrate") =>
          /\ last.vra0 = 0
          /\ last.freqsel = 48000
          /\ hw.dacby = IF card.ac97_clock_corrector = <<0, 1>>
                        THEN "plain" ELSE "over"

\* a request of 44100 on a card with a clock corrector: 48000 was taken and
\* then divided by the corrector
C29_Witness ==
    /\ last.op = "setrate"
    /\ last.freq0 = 44100
    /\ last.freqsel = 48000
    /\ card.vra = 0
    /\ card.ac97_clock_corrector # <<0, 1>>
    /\ hw.dacby = "over"
    /\ aui.freq_card # 48000

====
